---------------------------- MODULE Spec2Model ----------------------------
(* Verification model of the dive-plan narrative generator                 *)
(* add_plan_to_notes() and add_icd_entry() of core/plannernotes.c.         *)
(*                                                                         *)
(* The waypoint list (struct divedatapoint, linked through ->next) is a    *)
(* sequence; a pointer into it is an index, NULL is 0.  The html buffer is *)
(* a record of the report's parts in the order the code appends them.      *)
(* Pressures are millibar, volumes millilitre, gas fractions permille, as  *)
(* in the code.  Floating point expressions are evaluated in integers,     *)
(* rounding where the code calls lrint().                                  *)
(*                                                                         *)
(* Two further parts follow the planner: the dive filter of                *)
(* core/divefilter.cpp (SpecFilter) and the binner and the quartiles of    *)
(* the statistics (SpecStats).  Each part has its own variables and holds  *)
(* those of the others fixed.                                              *)
EXTENDS Integers, Sequences, FiniteSets, TLC

VARIABLES
    diveplan,   \* struct diveplan: dp (the waypoint list), surface_interval
    dive,       \* struct dive: cylinder[], dc.divemode, notes, cns, maxcns, otu
    prefs,      \* the preferences add_plan_to_notes reads
    args,       \* the call's arguments: show_disclaimer, error
    pc,         \* position of the running call
    lv,         \* the local variables of add_plan_to_notes
    buffer,     \* the html buffer being built
    icdbuffer,  \* the ICD table rows written by add_icd_entry
    old,        \* the dive and the plan as they were when the call started
    ncalls,     \* calls of add_plan_to_notes started so far
    dive_table,         \* the dives of the log, the fields the filter reads
    filterData,         \* DiveFilter::filterData: fullText, constraints
    shown_dives,        \* the global counter of dives not hidden
    diveSiteRefCount,   \* DiveFilter::diveSiteRefCount
    dive_sites,         \* DiveFilter::dive_sites
    sitecalls,          \* startFilterDiveSites / stopFilterDiveSites calls made
    dives,              \* the dives handed to a binner, each with its bin value
    value_bins,         \* what SimpleBinner::bin_dives returned
    count_bins,         \* what SimpleBinner::count_dives returned
    vec,                \* the sorted vector handed to StatsType::quartiles
    quart               \* what StatsType::quartiles returned and the indexes it read

plannerVars == <<diveplan, dive, prefs, args, pc, lv, buffer, icdbuffer, old, ncalls>>

filterVars == <<dive_table, filterData, shown_dives, diveSiteRefCount, dive_sites, sitecalls>>

statsVars == <<dives, value_bins, count_bins, vec, quart>>

vars == <<plannerVars, filterVars, statsVars>>

-----------------------------------------------------------------------------
(* Bounds of the model *)

\* longest waypoint list of the general input family
MaxWaypoints == 2

\* calls of add_plan_to_notes on the same dive
MaxCalls == 2

-----------------------------------------------------------------------------
(* Arithmetic helpers *)

Abs(x) == IF x < 0 THEN -x ELSE x

Min(a, b) == IF a < b THEN a ELSE b

\* lrint(a / b) for b > 0: round to nearest
RoundDiv(a, b) == (2 * a + b) \div (2 * b)

\* lrint(a * b / c) for a, b >= 0 and c > 0, splitting a so that no product
\* leaves the 32 bit range
MulDivRound(a, b, c) == (a \div c) * b + RoundDiv((a % c) * b, c)

\* floor(a * b / c), as MulDivRound
MulDivFloor(a, b, c) == (a \div c) * b + ((a % c) * b) \div c

\* FRACTION(n, x): the pair n / x, n % x
FRACTION(n, x) == <<n \div x, n % x>>

-----------------------------------------------------------------------------
(* Gas mixes and cylinders *)

NULL == 0

Gasmix(o2, he) == [o2 |-> o2, he |-> he]

\* struct gasmix lastprintgasmix = {{ -1 }, { -1 }}
NoPrintGasmix == Gasmix(-1, -1)

\* struct gasmix newgasmix = {}
ZeroGasmix == Gasmix(0, 0)

get_he(mix) == mix.he

get_o2(mix) == mix.o2

get_n2(mix) == 1000 - mix.o2 - mix.he

\* non-zero when the two mixes differ in a fraction
gasmix_distance(a, b) == Abs(a.o2 - b.o2) + Abs(a.he - b.he)

Cylinder(mix, use, size, start, end, used, deco) ==
    [gasmix |-> mix, cylinder_use |-> use, size |-> size, start |-> start,
     end |-> end, gas_used |-> used, deco_gas_used |-> deco]

\* an unused slot of dive->cylinder[]
EmptyCylinder == Cylinder(ZeroGasmix, "OC_GAS", 0, 0, 0, 0, 0)

cylinder_none(cyl) ==
    /\ cyl.size = 0
    /\ cyl.gasmix = ZeroGasmix
    /\ cyl.start = 0
    /\ cyl.end = 0

\* gas_compressibility_factor(gas, bar) in permille; the pressure is capped
\* at 500 bar and the helium part of the mix is nearly ideal
gas_compressibility_factor(mix, mbar) ==
    LET x == Min(mbar \div 1000, 500)
        air == (27 * x * x) \div 10000 - (35 * x) \div 100
        he == (47 * x) \div 100
    IN 1000 + ((1000 - mix.he) * air + mix.he * he) \div 1000

\* isothermal_pressure(gas, 1.0, volume1, volume2) * 1000: the pressure in
\* mbar of volume1 ml of surface gas held in a cylinder of volume2 ml
isothermal_pressure(mix, volume1, volume2) ==
    LET ideal1 == MulDivRound(volume1, 1000, volume2)
        p_ideal == MulDivRound(ideal1, 1000, gas_compressibility_factor(mix, 1000))
    IN MulDivRound(p_ideal, gas_compressibility_factor(mix, p_ideal), 1000)

\* depth_to_mbar(depth, dive): surface pressure plus the water column
depth_to_mbar(mm) == 1013 + mm \div 10


-----------------------------------------------------------------------------
(* Waypoints *)

Waypoint(depth, time, cyl, setpoint, entered) ==
    [depth |-> depth, time |-> time, cylinderid |-> cyl, setpoint |-> setpoint,
     entered |-> entered, minimum_gas |-> 0]

\* dp->next of the waypoint at index i of list dps
NextOf(dps, i) == IF i < Len(dps) THEN i + 1 ELSE NULL

\* while (nextdp && nextdp->time == 0) nextdp = nextdp->next, from index i
RECURSIVE SkipPlaceholders(_, _)
SkipPlaceholders(dps, i) ==
    IF i # NULL /\ dps[i].time = 0
    THEN SkipPlaceholders(dps, NextOf(dps, i))
    ELSE i

\* diveplan_duration(): the largest time, in rounded minutes
RECURSIVE MaxTime(_, _)
MaxTime(dps, i) ==
    IF i > Len(dps) THEN 0
    ELSE LET rest == MaxTime(dps, i + 1)
         IN IF dps[i].time > rest THEN dps[i].time ELSE rest

diveplan_duration(plan) == (MaxTime(plan.dp, 1) + 30) \div 60

-----------------------------------------------------------------------------
(* The html buffer: the report's parts in the order they are appended *)

EmptyBuffer ==
    [parts |-> <<>>,        \* the blocks of the report, in order
     banner |-> <<>>,       \* the surface interval shown in the banner, h and mm
     rows |-> <<>>,         \* the leg table's rows, or the verbatim lines
     cylrows |-> <<>>,      \* the gas consumption rows
     icd |-> <<>>,          \* the ICD table copied from icdbuffer
     cns |-> -1,            \* the CNS and OTU figures printed, -1 when absent
     otu |-> -1,
     po2 |-> <<>>]          \* the pO2 warnings

\* notes a dive holds before any plan was written to it
PriorNotes == [EmptyBuffer EXCEPT !.parts = <<"prior">>]

AddPart(buf, part) == [buf EXCEPT !.parts = Append(@, part)]

\* the locals of add_plan_to_notes as declared, lines 75 to 89
InitLocals ==
    [dp |-> IF Len(diveplan.dp) > 0 THEN 1 ELSE NULL,
     nextdp |-> NULL,
     lastdepth |-> 0,
     lasttime |-> 0,
     lastsetpoint |-> -1,
     newdepth |-> 0,
     lastprintdepth |-> 0,
     lastprintsetpoint |-> -1,
     lastprintgasmix |-> NoPrintGasmix,
     lastentered |-> TRUE,
     istrimix |-> FALSE,
     icdwarning |-> FALSE,
     lastbottomdp |-> NULL,
     gasidx |-> 0]

decoMode == prefs.planner_deco_mode

-----------------------------------------------------------------------------
(* add_plan_to_notes: entry and the early exits *)

\* a caller invokes add_plan_to_notes(diveplan, dive, show_disclaimer, error)
Call ==
    /\ pc \in {"idle", "done"}
    /\ ncalls < MaxCalls
    /\ pc' = "start"
    /\ ncalls' = ncalls + 1
    /\ lv' = InitLocals
    /\ buffer' = EmptyBuffer
    /\ icdbuffer' = <<>>
    /\ old' = [dive |-> dive, diveplan |-> diveplan]
    /\ UNCHANGED <<diveplan, dive, prefs, args, filterVars, statsVars>>

\* if (!dp) goto finished
EmptyPlan ==
    /\ pc = "start"
    /\ lv.dp = NULL
    /\ pc' = "done"
    /\ UNCHANGED <<diveplan, dive, prefs, args, lv, buffer, icdbuffer, old, ncalls, filterVars, statsVars>>

\* a return on error that has already reset the CNS of the dive
AbortedAfterReset ==
    /\ pc = "start"
    /\ lv.dp # NULL
    /\ args.error # 0
    /\ buffer' = AddPart(EmptyBuffer, "warning_aborted")
    /\ dive' = [dive EXCEPT !.notes = buffer', !.cns = 0, !.maxcns = 0]
    /\ pc' = "done"
    /\ UNCHANGED <<diveplan, prefs, args, lv, icdbuffer, old, ncalls, filterVars, statsVars>>

\* if (error) { one warning line; dive->notes = strdup(buffer); goto finished; }
Aborted ==
    /\ pc = "start"
    /\ lv.dp # NULL
    /\ args.error # 0
    /\ buffer' = AddPart(EmptyBuffer, "warning_aborted")
    /\ dive' = [dive EXCEPT !.notes = buffer']
    /\ pc' = "done"
    /\ UNCHANGED <<diveplan, prefs, args, lv, icdbuffer, old, ncalls, filterVars, statsVars>>

\* len = show_disclaimer ? snprintf(disclaimer) : 0
WithDisclaimer ==
    IF args.show_disclaimer THEN AddPart(EmptyBuffer, "disclaimer") ELSE EmptyBuffer

\* an early return that also takes a surface interval of zero
OverlappingOrZero ==
    /\ pc = "start"
    /\ lv.dp # NULL
    /\ args.error = 0
    /\ diveplan.surface_interval <= 0
    /\ buffer' = AddPart(WithDisclaimer, "banner_overlapping")
    /\ dive' = [dive EXCEPT !.notes = buffer']
    /\ pc' = "done"
    /\ UNCHANGED <<diveplan, prefs, args, lv, icdbuffer, old, ncalls, filterVars, statsVars>>

\* surface_interval < 0: the banner alone becomes the notes and the call returns
Overlapping ==
    /\ pc = "start"
    /\ lv.dp # NULL
    /\ args.error = 0
    /\ diveplan.surface_interval < 0
    /\ buffer' = AddPart(WithDisclaimer, "banner_overlapping")
    /\ dive' = [dive EXCEPT !.notes = buffer']
    /\ pc' = "done"
    /\ UNCHANGED <<diveplan, prefs, args, lv, icdbuffer, old, ncalls, filterVars, statsVars>>

\* a banner whose long layoff starts after 48 hours
BannerAfter48Hours(buf) ==
    IF diveplan.surface_interval > 48 * 60 * 60
    THEN AddPart(buf, "banner_created")
    ELSE [AddPart(buf, "banner_interval")
            EXCEPT !.banner = FRACTION(diveplan.surface_interval \div 60, 60)]

\* the banner of a plan that does not overlap: 48 hours or more without the
\* interval, otherwise with the interval as h:mm
Banner(buf) ==
    IF diveplan.surface_interval >= 48 * 60 * 60
    THEN AddPart(buf, "banner_created")
    ELSE [AddPart(buf, "banner_interval")
            EXCEPT !.banner = FRACTION(diveplan.surface_interval \div 60, 60)]

\* Runtime: line, with the variations placeholder unless recreational
RuntimeLine(buf) ==
    IF prefs.display_variations /\ decoMode # "RECREATIONAL"
    THEN AddPart(buf, "runtime_variations")
    ELSE AddPart(buf, "runtime")

\* the head of the leg table of a plan that is not verbatim
TableHead(buf) ==
    IF ~prefs.verbatim_plan THEN AddPart(buf, "table_head") ELSE buf

\* a scan of the cylinders that does not look at cylinder_use
HasHeliumCylinder ==
    \E i \in 1..Len(dive.cylinder) : get_he(dive.cylinder[i].gasmix) > 0

\* the dive has an OC cylinder with helium: for over all MAX_CYLINDERS slots
HasTrimixCylinder ==
    \E i \in 1..Len(dive.cylinder) :
        /\ dive.cylinder[i].cylinder_use = "OC_GAS"
        /\ get_he(dive.cylinder[i].gasmix) > 0

\* lines 116 to 185: disclaimer, banner, runtime, table head, ICD table head
Header ==
    /\ pc = "start"
    /\ lv.dp # NULL
    /\ args.error = 0
    /\ diveplan.surface_interval >= 0
    /\ buffer' = TableHead(RuntimeLine(Banner(WithDisclaimer)))
    /\ lv' = [lv EXCEPT !.istrimix = HasTrimixCylinder]
    /\ icdbuffer' = <<>>
    /\ pc' = "loop"
    /\ UNCHANGED <<diveplan, dive, prefs, args, old, ncalls, filterVars, statsVars>>

-----------------------------------------------------------------------------
(* Isobaric counterdiffusion *)

\* isobaric_counterdiffusion(old, new, &icdvalues): the deltas in permille and
\* whether the change violates the 5 * dN2 > -dHe rule
isobaric_counterdiffusion(oldmix, newmix) ==
    LET dN2 == get_n2(newmix) - get_n2(oldmix)
        dHe == get_he(newmix) - get_he(oldmix)
    IN [dN2 |-> dN2, dHe |-> dHe, violation |-> 5 * dN2 > -dHe]

\* a colour test that is not strict
IcdRedAtBoundary(icdvalues) == (5 * icdvalues.dN2) >= -icdvalues.dHe

\* the colour test of add_icd_entry: "red" when (5 * dN2) > -dHe
IcdRed(icdvalues) == (5 * icdvalues.dN2) > -icdvalues.dHe

\* add_icd_entry(): one gas change of the ICD table.  The percentages are in
\* hundredths of a percent (the two decimals printed), the partial pressures
\* in mbar * permille (1e-6 bar); pmaxdN2x5 is five times the printed value.
add_icd_entry(icdvalues, time_seconds, ambientpressure_mbar, gas_from, gas_to) ==
    [time_min |-> (time_seconds + 30) \div 60,
     gas_from |-> gas_from,
     gas_to |-> gas_to,
     dHe |-> icdvalues.dHe * 10,
     dN2 |-> icdvalues.dN2 * 10,
     red |-> IcdRed(icdvalues),
     maxdN2 |-> 2 * (-icdvalues.dHe),
     pdHe |-> ambientpressure_mbar * icdvalues.dHe,
     pdN2 |-> ambientpressure_mbar * icdvalues.dN2,
     pmaxdN2x5 |-> ambientpressure_mbar * (-icdvalues.dHe)]

-----------------------------------------------------------------------------
(* add_plan_to_notes: one iteration of the waypoint loop, lines 187 to 388 *)

Dp == diveplan.dp[lv.dp]

\* dp->next
DpNext == NextOf(diveplan.dp, lv.dp)

\* nextdp after the look ahead of lines 200 and 201
NextDp == SkipPlaceholders(diveplan.dp, DpNext)

CylinderGasmix(id) == dive.cylinder[id + 1].gasmix

gasmix == CylinderGasmix(Dp.cylinderid)

newgasmix ==
    IF NextDp # NULL THEN CylinderGasmix(diveplan.dp[NextDp].cylinderid) ELSE ZeroGasmix

isascent == Dp.depth < lv.lastdepth

gaschange_after ==
    /\ NextDp # NULL
    /\ \/ gasmix_distance(gasmix, newgasmix) # 0
       \/ Dp.setpoint # diveplan.dp[NextDp].setpoint

gaschange_before ==
    \/ gasmix_distance(lv.lastprintgasmix, gasmix) # 0
    \/ lv.lastprintsetpoint # Dp.setpoint

\* nextdp && dp->depth.mm != nextdp->depth.mm
DepthChangesNext == NextDp # NULL /\ Dp.depth # diveplan.dp[NextDp].depth

\* a skip rule that spares the ascents
SkipLegCondNoAscent ==
    /\ ~Dp.entered
    /\ NextDp # NULL
    /\ Dp.depth > lv.lastdepth
    /\ diveplan.dp[NextDp].depth # Dp.depth
    /\ ~gaschange_before
    /\ ~gaschange_after

\* lines 207 to 213: a leg devoid of anything useful
SkipLegCond ==
    /\ ~Dp.entered
    /\ NextDp # NULL
    /\ Dp.depth # lv.lastdepth
    /\ diveplan.dp[NextDp].depth # Dp.depth
    /\ ~gaschange_before
    /\ ~gaschange_after

\* line 214: less than 10 seconds at the depth of the last waypoint
SkipShortCond ==
    /\ Dp.time - lv.lasttime < 10
    /\ lv.lastdepth = Dp.depth
    /\ ~(/\ gaschange_after
         /\ DpNext # NULL
         /\ Dp.depth # diveplan.dp[DpNext].depth)

\* while ((dp = nextdp) != NULL)
Advance(l, next) ==
    /\ lv' = [l EXCEPT !.dp = next, !.nextdp = next]
    /\ pc' = IF next = NULL THEN "summary" ELSE "loop"

\* if (dp->time == 0) continue, with nextdp = dp->next
SkipPlaceholder ==
    /\ pc = "loop"
    /\ Dp.time = 0
    /\ Advance(lv, DpNext)
    /\ UNCHANGED <<diveplan, dive, prefs, args, buffer, icdbuffer, old, ncalls, filterVars, statsVars>>

SkipLeg ==
    /\ pc = "loop"
    /\ Dp.time # 0
    /\ SkipLegCond
    /\ Advance(lv, NextDp)
    /\ UNCHANGED <<diveplan, dive, prefs, args, buffer, icdbuffer, old, ncalls, filterVars, statsVars>>

SkipShort ==
    /\ pc = "loop"
    /\ Dp.time # 0
    /\ ~SkipLegCond
    /\ SkipShortCond
    /\ Advance(lv, NextDp)
    /\ UNCHANGED <<diveplan, dive, prefs, args, buffer, icdbuffer, old, ncalls, filterVars, statsVars>>

\* the waypoint passed both skip rules
Processed == pc = "loop" /\ Dp.time # 0 /\ ~SkipLegCond /\ ~SkipShortCond

\* line 218 reads nextdp->entered while nextdp is NULL
NullDeref == Dp.entered /\ NextDp = NULL

\* the values line 218 can read for nextdp->entered: the successor's flag, or
\* anything when the successor does not exist
NextEnteredValues ==
    IF NextDp # NULL THEN {diveplan.dp[NextDp].entered} ELSE BOOLEAN

\* if (dp->entered && !nextdp->entered) lastbottomdp = dp
StoreLastBottom(l, nextentered) ==
    IF Dp.entered /\ ~nextentered THEN [l EXCEPT !.lastbottomdp = lv.dp] ELSE l

\* the read of line 218 through the NULL pointer traps
NullDerefCrash ==
    /\ Processed
    /\ NullDeref
    /\ pc' = "crashed"
    /\ UNCHANGED <<diveplan, dive, prefs, args, lv, buffer, icdbuffer, old, ncalls, filterVars, statsVars>>

\* one line of the verbatim plan or one row of the leg table.  dp is the
\* waypoint the line was printed for; sp is the setpoint printed, -1 for none;
\* gas is the mix named, change tells which gas change a table row annotates
Row(kind, symbol, duration, runtime, gas, sp, change) ==
    [kind |-> kind, dp |-> lv.dp, symbol |-> symbol, depth |-> Dp.depth,
     duration |-> duration, runtime |-> runtime, gas |-> gas, sp |-> sp,
     change |-> change]

\* lastprintdepth = newdepth; lastdepth = dp->depth.mm; lastsetpoint =
\* dp->setpoint; lastentered = dp->entered (lines 384 to 387)
TailUpdate(l) ==
    [l EXCEPT !.lastprintdepth = l.newdepth,
              !.lastdepth = Dp.depth,
              !.lastsetpoint = Dp.setpoint,
              !.lastentered = Dp.entered]

\* the ICD rows a gas change from the last printed mix adds, and the warning
IcdRows(cond, mix_to, time_seconds) ==
    IF cond
    THEN <<add_icd_entry(isobaric_counterdiffusion(lv.lastprintgasmix, mix_to),
                         time_seconds, depth_to_mbar(Dp.depth),
                         lv.lastprintgasmix, mix_to)>>
    ELSE <<>>

IcdWarning(cond, mix_to) ==
    cond /\ isobaric_counterdiffusion(lv.lastprintgasmix, mix_to).violation

(* verbatim plan, lines 229 to 269 and 363 to 383 *)

VerbatimTransitionCond ==
    \/ prefs.display_transitions
    \/ Dp.entered
    \/ DpNext = NULL
    \/ (gaschange_after /\ DpNext # NULL /\ DepthChangesNext)

VerbatimStayCond == DepthChangesNext \/ gaschange_after

VerbatimLine(kind) ==
    Row(kind, "", FRACTION(Dp.time - lv.lasttime, 60), FRACTION(Dp.time, 60),
        gasmix, IF Dp.setpoint # 0 THEN Dp.setpoint ELSE -1, "none")

VerbatimLegRows ==
    IF Dp.depth # lv.lastprintdepth
    THEN IF VerbatimTransitionCond THEN <<VerbatimLine("transition")>> ELSE <<>>
    ELSE IF VerbatimStayCond THEN <<VerbatimLine("stay")>> ELSE <<>>

\* newdepth and lasttime are set unless the stay is not printed
VerbatimLegLocals(l) ==
    IF Dp.depth # lv.lastprintdepth \/ VerbatimStayCond
    THEN [l EXCEPT !.newdepth = Dp.depth, !.lasttime = Dp.time]
    ELSE l

\* the switch is to an open circuit gas: no setpoint on the next waypoint
VerbatimSwitchOC == ~(NextDp # NULL /\ diveplan.dp[NextDp].setpoint # 0)

VerbatimIcdCond ==
    /\ gaschange_after
    /\ lv.lastsetpoint >= 0
    /\ VerbatimSwitchOC
    /\ isascent
    /\ get_he(lv.lastprintgasmix) > 0

VerbatimSwitchRows ==
    IF gaschange_after /\ lv.lastsetpoint >= 0
    THEN <<Row("switch", "", <<>>, <<>>, newgasmix,
               IF VerbatimSwitchOC THEN -1 ELSE diveplan.dp[NextDp].setpoint,
               "none")>>
    ELSE <<>>

VerbatimSwitchLocals(l) ==
    IF gaschange_after
    THEN [l EXCEPT !.lastprintgasmix = newgasmix,
                   !.icdwarning = @ \/ IcdWarning(VerbatimIcdCond, newgasmix)]
    ELSE l

VerbatimLeg ==
    /\ Processed
    /\ prefs.verbatim_plan
    /\ \E nextentered \in NextEnteredValues :
          Advance(TailUpdate(VerbatimSwitchLocals(VerbatimLegLocals(
                      StoreLastBottom(lv, nextentered)))), NextDp)
    /\ buffer' = [buffer EXCEPT !.rows = @ \o VerbatimLegRows \o VerbatimSwitchRows]
    /\ icdbuffer' = icdbuffer \o IcdRows(VerbatimIcdCond, newgasmix, Dp.time)
    /\ UNCHANGED <<diveplan, dive, prefs, args, old, ncalls, filterVars, statsVars>>

(* leg table, lines 287 to 361 *)

\* the conditions of lines 287 to 292 without the change of depth that follows
CollapsedEmitCondNoDepthChange ==
    \/ prefs.display_transitions
    \/ Dp.entered
    \/ DpNext = NULL
    \/ (~isascent /\ gaschange_before /\ DepthChangesNext)
    \/ (gaschange_after /\ lv.lastentered)
    \/ (gaschange_after /\ ~isascent)
    \/ (isascent /\ gaschange_after /\ DepthChangesNext)
    \/ (lv.lastentered /\ ~Dp.entered)

CollapsedEmitCond ==
    \/ prefs.display_transitions
    \/ Dp.entered
    \/ DpNext = NULL
    \/ DepthChangesNext
    \/ (~isascent /\ gaschange_before /\ DepthChangesNext)
    \/ (gaschange_after /\ lv.lastentered)
    \/ (gaschange_after /\ ~isascent)
    \/ (isascent /\ gaschange_after /\ DepthChangesNext)
    \/ (lv.lastentered /\ ~Dp.entered)

segmentsymbol ==
    IF isascent THEN "ascent"
    ELSE IF Dp.depth > lv.lastdepth THEN "descent"
    ELSE IF Dp.entered THEN "entered"
    ELSE "decostop"

\* line 319: the gas change at the end of the leg is shown on this row
TrailingCond ==
    /\ isascent \/ Dp.entered
    /\ gaschange_after
    /\ DpNext # NULL
    /\ NextDp # NULL
    /\ (Dp.depth # diveplan.dp[NextDp].depth \/ diveplan.dp[NextDp].entered)

\* line 336: the gas of this leg is shown on this row
LeadingCond == ~TrailingCond /\ gaschange_before

\* a row whose runtime column holds the duration of the leg
CollapsedRowRuntimeOfLeg ==
    LET duration == IF prefs.display_duration
                    THEN (Dp.time - lv.lasttime + 30) \div 60 ELSE -1
        runtime == IF prefs.display_runtime
                   THEN (Dp.time - lv.lasttime + 30) \div 60 ELSE -1
    IN IF TrailingCond
       THEN Row("leg", segmentsymbol, duration, runtime, newgasmix,
                IF Dp.setpoint # 0 THEN diveplan.dp[NextDp].setpoint ELSE -1,
                "trailing")
       ELSE IF LeadingCond
       THEN Row("leg", segmentsymbol, duration, runtime, gasmix,
                IF Dp.setpoint # 0 THEN Dp.setpoint ELSE -1, "leading")
       ELSE Row("leg", segmentsymbol, duration, runtime, ZeroGasmix, -1, "none")

CollapsedRow ==
    LET duration == IF prefs.display_duration
                    THEN (Dp.time - lv.lasttime + 30) \div 60 ELSE -1
        runtime == IF prefs.display_runtime THEN (Dp.time + 30) \div 60 ELSE -1
    IN IF TrailingCond
       THEN Row("leg", segmentsymbol, duration, runtime, newgasmix,
                IF Dp.setpoint # 0 THEN diveplan.dp[NextDp].setpoint ELSE -1,
                "trailing")
       ELSE IF LeadingCond
       THEN Row("leg", segmentsymbol, duration, runtime, gasmix,
                IF Dp.setpoint # 0 THEN Dp.setpoint ELSE -1, "leading")
       ELSE Row("leg", segmentsymbol, duration, runtime, ZeroGasmix, -1, "none")

TrailingIcdCond ==
    /\ CollapsedEmitCond
    /\ TrailingCond
    /\ Dp.setpoint = 0
    /\ isascent
    /\ get_he(lv.lastprintgasmix) > 0

LeadingIcdCond ==
    /\ CollapsedEmitCond
    /\ LeadingCond
    /\ Dp.setpoint = 0
    /\ get_he(lv.lastprintgasmix) > 0

CollapsedIcdRows ==
    IcdRows(TrailingIcdCond, newgasmix, Dp.time)
        \o IcdRows(LeadingIcdCond, gasmix, lv.lasttime)

CollapsedLocals(l) ==
    IF ~CollapsedEmitCond THEN l
    ELSE LET printed ==
                 IF TrailingCond
                 THEN [l EXCEPT !.lastprintsetpoint = diveplan.dp[NextDp].setpoint,
                                !.lastprintgasmix = newgasmix,
                                !.icdwarning = @ \/ IcdWarning(TrailingIcdCond, newgasmix)]
                 ELSE IF LeadingCond
                 THEN [l EXCEPT !.lastprintsetpoint = Dp.setpoint,
                                !.lastprintgasmix = gasmix,
                                !.icdwarning = @ \/ IcdWarning(LeadingIcdCond, gasmix)]
                 ELSE l
         IN [printed EXCEPT !.newdepth = Dp.depth, !.lasttime = Dp.time]

CollapsedLeg ==
    /\ Processed
    /\ ~prefs.verbatim_plan
    /\ \E nextentered \in NextEnteredValues :
          Advance(TailUpdate(CollapsedLocals(StoreLastBottom(lv, nextentered))), NextDp)
    /\ buffer' = [buffer EXCEPT !.rows =
                      IF CollapsedEmitCond THEN Append(@, CollapsedRow) ELSE @]
    /\ icdbuffer' = icdbuffer \o CollapsedIcdRows
    /\ UNCHANGED <<diveplan, dive, prefs, args, old, ncalls, filterVars, statsVars>>

-----------------------------------------------------------------------------
(* add_plan_to_notes: CNS and OTU, deco model, lines 389 to 444 *)

\* number of slots of dive->cylinder[]
MAX_CYLINDERS == 3

\* update_cylinder_related_info(dive): the exposure figures of the external
\* collaborator are stored in the dive; maxcns only when it is 0
update_cylinder_related_info(d) ==
    [d EXCEPT !.otu = d.exposure.otu,
              !.maxcns = IF @ = 0 THEN d.exposure.cns ELSE @,
              !.updates = @ + 1]

DecoModelLine ==
    IF decoMode = "BUEHLMANN" THEN "deco_buehlmann"
    ELSE IF decoMode = "VPMB" THEN "deco_vpmb"
    ELSE "deco_recreational"

ConsumptionHead ==
    IF dive.divemode = "CCR" THEN "consumption_ccr" ELSE "consumption_sac"

Summary ==
    /\ pc = "summary"
    /\ dive' = update_cylinder_related_info([dive EXCEPT !.cns = 0, !.maxcns = 0])
    /\ buffer' =
          LET closed == IF ~prefs.verbatim_plan THEN AddPart(buffer, "table_end")
                        ELSE buffer
              cns == [AddPart(closed, "cns_otu") EXCEPT !.cns = dive'.cns,
                                                         !.otu = dive'.otu]
          IN AddPart(AddPart(AddPart(cns, DecoModelLine), "atm_pressure"),
                     ConsumptionHead)
    /\ lv' = [lv EXCEPT !.gasidx = 0]
    /\ pc' = "cylinders"
    /\ UNCHANGED <<diveplan, prefs, args, icdbuffer, old, ncalls, filterVars, statsVars>>

-----------------------------------------------------------------------------
(* add_plan_to_notes: the gas consumption rows, lines 447 to 537 *)

Cyl == dive.cylinder[lv.gasidx + 1]

\* lrint(get_volume_units(ml)) in litres
VolumeShown(ml) == RoundDiv(ml, 1000)

\* remaining_gas: the surface volume of the gas left at the end pressure
remaining_gas(cyl) ==
    MulDivRound(cyl.end, cyl.size, gas_compressibility_factor(cyl.gasmix, cyl.end))

\* deco_pressure_mbar: the pressure the planned ascent takes from the cylinder
deco_pressure_mbar(cyl) ==
    isothermal_pressure(cyl.gasmix, remaining_gas(cyl) + cyl.deco_gas_used, cyl.size)
        - cyl.end

\* a threshold that includes 10000 mbar
EndAtOrBelowThreshold(cyl) == cyl.end <= 10000

\* line 467
MoreGasThanAvailable(cyl) == cyl.end < 10000

\* lines 472 and 473: end bar * size / compressibility < deco_gas_used
NoReserveForSharing(cyl) ==
    MulDivFloor(cyl.end, cyl.size, gas_compressibility_factor(cyl.gasmix, cyl.end))
        < cyl.deco_gas_used

\* the conditions of lines 481 and 482 without the deco model
MingasAppliesAnyModel ==
    /\ lv.lastbottomdp # NULL
    /\ lv.gasidx = diveplan.dp[lv.lastbottomdp].cylinderid
    /\ dive.divemode = "OC"

\* lines 481 and 482
MingasApplies ==
    /\ lv.lastbottomdp # NULL
    /\ lv.gasidx = diveplan.dp[lv.lastbottomdp].cylinderid
    /\ dive.divemode = "OC"
    /\ decoMode # "RECREATIONAL"

\* mingasv.mliter, lines 485 to 487
mingasv(cyl) ==
    MulDivRound(prefs.problemsolvingtime * prefs.bottomsac
                    * depth_to_mbar(diveplan.dp[lv.lastbottomdp].depth)
                    + 1000 * cyl.deco_gas_used,
                prefs.sacfactor, 100000)

\* lastbottomdp->minimum_gas.mbar, lines 489 and 490
minimum_gas(cyl) == isothermal_pressure(cyl.gasmix, mingasv(cyl), cyl.size)

\* mingas_d_pressure in mbar, line 494
mingas_d_pressure(cyl) == cyl.end + deco_pressure_mbar(cyl) - minimum_gas(cyl)

\* the comparison of line 497 made with the end pressure
EndCoversMingas(cyl) == cyl.end > minimum_gas(cyl)

\* cyl->start.mbar > lastbottomdp->minimum_gas.mbar, line 497
StartCoversMingas(cyl) == cyl.start > minimum_gas(cyl)

\* the colour of the minimum gas figure, line 500
MingasColour(cyl) == IF mingas_d_pressure(cyl) > 0 THEN "green" ELSE "red"

\* a minimum gas calculation that is made whatever the warning of the row
MingasReachedDespiteWarning(cyl) ==
    /\ cyl.size # 0
    /\ MingasApplies

\* the minimum gas calculation is reached for this cylinder
MingasReached(cyl) ==
    /\ cyl.size # 0
    /\ ~MoreGasThanAvailable(cyl)
    /\ ~NoReserveForSharing(cyl)
    /\ MingasApplies

\* the warnings chosen without regard to the size of the cylinder
CylWarningAnySize(cyl) ==
    IF MoreGasThanAvailable(cyl) THEN "more_gas_than_available"
    ELSE IF cyl.size # 0 /\ NoReserveForSharing(cyl) THEN "not_enough_reserve"
    ELSE IF cyl.size # 0 /\ MingasApplies /\ ~StartCoversMingas(cyl)
         THEN "mingas_exceeds_start"
    ELSE "none"

CylWarning(cyl) ==
    IF cyl.size = 0 THEN "none"
    ELSE IF MoreGasThanAvailable(cyl) THEN "more_gas_than_available"
    ELSE IF NoReserveForSharing(cyl) THEN "not_enough_reserve"
    ELSE IF MingasApplies /\ ~StartCoversMingas(cyl) THEN "mingas_exceeds_start"
    ELSE "none"

NoMingas == [shown |-> FALSE, colour |-> "", volume |-> 0, pressure |-> 0, delta |-> 0]

CylMingas(cyl) ==
    IF MingasReached(cyl) /\ StartCoversMingas(cyl)
    THEN [shown |-> TRUE, colour |-> MingasColour(cyl), volume |-> mingasv(cyl),
          pressure |-> minimum_gas(cyl), delta |-> mingas_d_pressure(cyl)]
    ELSE NoMingas

\* the row printed for the cylinder; a figure that is not printed is -1
CylRow(cyl) ==
    [gasidx |-> lv.gasidx,
     gasmix |-> cyl.gasmix,
     volume |-> VolumeShown(cyl.gas_used),
     pressure |-> IF cyl.size # 0 THEN cyl.start - cyl.end ELSE -1,
     deco_volume |-> IF VolumeShown(cyl.gas_used) > 0
                     THEN VolumeShown(cyl.deco_gas_used) ELSE -1,
     deco_pressure |-> IF cyl.size # 0 /\ VolumeShown(cyl.gas_used) > 0
                       THEN deco_pressure_mbar(cyl) ELSE -1,
     warning |-> CylWarning(cyl),
     mingas |-> CylMingas(cyl)]

\* for (gasidx < MAX_CYLINDERS) { if (cylinder_none(cyl)) break; ... }
CylindersDone == lv.gasidx >= MAX_CYLINDERS \/ cylinder_none(Cyl)

CylinderRow ==
    /\ pc = "cylinders"
    /\ ~CylindersDone
    /\ buffer' = [buffer EXCEPT !.cylrows = Append(@, CylRow(Cyl))]
    /\ diveplan' =
          IF MingasReached(Cyl)
          THEN [diveplan EXCEPT !.dp[lv.lastbottomdp].minimum_gas = minimum_gas(Cyl)]
          ELSE diveplan
    /\ lv' = [lv EXCEPT !.gasidx = @ + 1]
    /\ UNCHANGED <<dive, prefs, args, pc, icdbuffer, old, ncalls, filterVars, statsVars>>

\* lines 539 to 549: the ICD table of a trimix dive
IcdSection ==
    /\ pc = "cylinders"
    /\ CylindersDone
    /\ buffer' =
          IF lv.istrimix
          THEN LET table == [AddPart(buffer, "icd_table") EXCEPT !.icd = icdbuffer]
               IN IF lv.icdwarning THEN AddPart(table, "icd_warning") ELSE table
          ELSE buffer
    /\ pc' = "po2"
    /\ UNCHANGED <<diveplan, dive, prefs, args, lv, icdbuffer, old, ncalls, filterVars, statsVars>>

-----------------------------------------------------------------------------
(* add_plan_to_notes: the pO2 warnings, lines 551 to 594 *)

\* pressures.o2 of fill_pressures(depth_to_atm(depth), gasmix) on open
\* circuit: fraction of O2 times ambient pressure in atm, here multiplied by
\* 101325000 to stay in integers
Po2Scaled(wp) == get_o2(CylinderGasmix(wp.cylinderid)) * depth_to_mbar(wp.depth) * 100

\* a threshold in mbar on the scale of Po2Scaled
BarScaled(mbar) == mbar * 101325

Po2Ceiling(wp) == IF wp.entered THEN prefs.bottompo2 ELSE prefs.decopo2

\* a test of the ceiling that is not strict
Po2WarningAtCeiling(wp) ==
    IF Po2Scaled(wp) >= BarScaled(Po2Ceiling(wp)) THEN "high"
    ELSE IF Po2Scaled(wp) < BarScaled(160) THEN "low"
    ELSE "none"

Po2Warning(wp) ==
    IF Po2Scaled(wp) > BarScaled(Po2Ceiling(wp)) THEN "high"
    ELSE IF Po2Scaled(wp) < BarScaled(160) THEN "low"
    ELSE "none"

\* a walk over the waypoints that does not look at their time
RECURSIVE Po2WarningsAnyTime(_)
Po2WarningsAnyTime(i) ==
    IF i = NULL THEN <<>>
    ELSE LET wp == diveplan.dp[i]
             here == IF Po2Warning(wp) # "none"
                     THEN <<[dp |-> i, kind |-> Po2Warning(wp)]>>
                     ELSE <<>>
         IN here \o Po2WarningsAnyTime(NextOf(diveplan.dp, i))

\* while (dp) { if (dp->time != 0) ... dp = dp->next; }
RECURSIVE Po2Warnings(_)
Po2Warnings(i) ==
    IF i = NULL THEN <<>>
    ELSE LET wp == diveplan.dp[i]
             here == IF wp.time # 0 /\ Po2Warning(wp) # "none"
                     THEN <<[dp |-> i, kind |-> Po2Warning(wp)]>>
                     ELSE <<>>
         IN here \o Po2Warnings(NextOf(diveplan.dp, i))

\* the pO2 check and dive->notes = strdup(buffer)
Po2Check ==
    /\ pc = "po2"
    /\ buffer' = [AddPart(buffer, "end")
                    EXCEPT !.po2 = IF dive.divemode # "CCR" THEN Po2Warnings(1)
                                   ELSE <<>>]
    /\ dive' = [dive EXCEPT !.notes = buffer']
    /\ pc' = "done"
    /\ UNCHANGED <<diveplan, prefs, args, lv, icdbuffer, old, ncalls, filterVars, statsVars>>

-----------------------------------------------------------------------------
(* Inputs: the plans, dives and preferences a call is made on *)

\* depths of the waypoints, in mm
Depths == {0, 30000}

\* seconds between a waypoint and the one before it
TimeStep == 60

TRIMIX_21_35 == Gasmix(210, 350)

EAN50 == Gasmix(500, 0)

AIR == Gasmix(209, 0)

\* dive->cylinder[]: the cylinders given, then unused slots up to MAX_CYLINDERS
CylinderTable(cyls) ==
    [i \in 1..MAX_CYLINDERS |-> IF i <= Len(cyls) THEN cyls[i] ELSE EmptyCylinder]

\* a twin set of trimix and a stage of EAN50, both with ample reserve
StandardCylinders ==
    CylinderTable(<<Cylinder(TRIMIX_21_35, "OC_GAS", 24000, 200000, 100000, 2400000, 300000),
                    Cylinder(EAN50, "OC_GAS", 11000, 200000, 150000, 550000, 550000)>>)

\* the waypoints that may follow a list whose last real waypoint is at time t:
\* a placeholder of time 0, or a waypoint one TimeStep later
WaypointsAfter(t) ==
    {Waypoint(0, 0, c, 0, FALSE) : c \in {0}}
        \cup {Waypoint(d, t + TimeStep, c, 0, e) :
                  d \in Depths, c \in {0, 1}, e \in BOOLEAN}

RECURSIVE LastTime(_)
LastTime(dps) ==
    IF dps = <<>> THEN 0
    ELSE IF dps[Len(dps)].time # 0 THEN dps[Len(dps)].time
    ELSE LastTime(SubSeq(dps, 1, Len(dps) - 1))

\* the waypoint lists of at most n waypoints with non-decreasing times
RECURSIVE Plans(_)
Plans(n) ==
    IF n = 0 THEN {<<>>}
    ELSE LET shorter == Plans(n - 1)
         IN shorter \cup
            UNION {{Append(dps, wp) : wp \in WaypointsAfter(LastTime(dps))} :
                       dps \in {q \in shorter : Len(q) = n - 1}}

DefaultPrefs ==
    [verbatim_plan |-> FALSE, display_runtime |-> TRUE, display_duration |-> TRUE,
     display_transitions |-> FALSE, display_variations |-> FALSE,
     planner_deco_mode |-> "BUEHLMANN", sacfactor |-> 150, problemsolvingtime |-> 1,
     bottomsac |-> 20000, bottompo2 |-> 1400, decopo2 |-> 1600]

DiveWith(cyls, mode) ==
    [cylinder |-> cyls, divemode |-> mode, notes |-> PriorNotes,
     cns |-> 12, maxcns |-> 15, otu |-> 20,
     exposure |-> [cns |-> 25, otu |-> 40], updates |-> 0]

\* the state before the first call, with the inputs given
\* the filter as DiveFilter::DiveFilter() leaves it, over an empty log
NoFilter ==
    /\ dive_table = <<>>
    /\ filterData = [fullText |-> FALSE, constraints |-> FALSE]
    /\ shown_dives = 0
    /\ diveSiteRefCount = 0
    /\ dive_sites = <<>>
    /\ sitecalls = [start |-> 0, stop |-> 0]

\* no statistics computed
NoStats ==
    /\ dives = <<>>
    /\ value_bins = [called |-> FALSE, res |-> <<>>]
    /\ count_bins = [called |-> FALSE, res |-> <<>>]
    /\ vec = <<>>
    /\ quart = [called |-> FALSE]

InitWith(plan, interval, d, p, a) ==
    /\ diveplan = [dp |-> plan, surface_interval |-> interval]
    /\ dive = d
    /\ prefs = p
    /\ args = a
    /\ pc = "idle"
    /\ lv = InitLocals
    /\ buffer = EmptyBuffer
    /\ icdbuffer = <<>>
    /\ old = [dive |-> dive, diveplan |-> diveplan]
    /\ ncalls = 0
    /\ NoFilter
    /\ NoStats

NoError == [show_disclaimer |-> TRUE, error |-> 0]

\* every plan of up to MaxWaypoints waypoints on the standard cylinders, open
\* circuit, in the four display modes
InitPlans ==
    \E plan \in Plans(MaxWaypoints), verbatim \in BOOLEAN, transitions \in BOOLEAN :
        InitWith(plan, 3600, DiveWith(StandardCylinders, "OC"),
                 [DefaultPrefs EXCEPT !.verbatim_plan = verbatim,
                                      !.display_transitions = transitions],
                 NoError)

\* a bottom leg entered by the user and the ascent computed from it
BottomAndAscent ==
    <<Waypoint(30000, 1200, 0, 0, TRUE), Waypoint(0, 1500, 0, 0, FALSE)>>

\* the same ascent without any entered leg
AscentOnly ==
    <<Waypoint(30000, 1200, 0, 0, FALSE), Waypoint(0, 1500, 0, 0, FALSE)>>

\* an ascent given as two legs with nothing to report between them
AscentInSteps ==
    <<Waypoint(30000, 1200, 0, 0, TRUE), Waypoint(15000, 1290, 0, 0, FALSE),
      Waypoint(0, 1380, 0, 0, FALSE)>>

\* the control level inputs: error, surface interval, disclaimer, empty plans
InitControl ==
    \E plan \in {<<>>, <<Waypoint(0, 0, 0, 0, FALSE)>>,
                 <<Waypoint(0, 0, 0, 0, FALSE), Waypoint(0, 0, 0, 0, FALSE)>>,
                 BottomAndAscent, AscentOnly, AscentInSteps},
       interval \in {-3600, -1, 0, 59, 3600, 172799, 172800, 200000},
       error \in {0, 1},
       disclaimer \in BOOLEAN,
       verbatim \in BOOLEAN,
       variations \in BOOLEAN,
       deco \in {"BUEHLMANN", "RECREATIONAL"} :
        InitWith(plan, interval, DiveWith(StandardCylinders, "OC"),
                 [DefaultPrefs EXCEPT !.verbatim_plan = verbatim,
                                      !.display_variations = variations,
                                      !.planner_deco_mode = deco],
                 [show_disclaimer |-> disclaimer, error |-> error])

\* dive mode and deco model of the calls on varied cylinders
ModeAndModel ==
    {<<"OC", "BUEHLMANN">>, <<"OC", "VPMB">>, <<"OC", "RECREATIONAL">>,
     <<"CCR", "BUEHLMANN">>, <<"PSCR", "BUEHLMANN">>}

\* the pressures and volumes of the bottom cylinder, with the dive mode and the
\* deco model, on a plan with and without an entered bottom leg
InitCylinders ==
    \E plan \in {BottomAndAscent, AscentOnly},
       size \in {0, 12000},
       start \in {20000, 200000},
       end \in {9999, 10000, 50000, 150000},
       used \in {0, 400, 1200000},
       deco \in {0, 100000, 700000},
       mm \in ModeAndModel :
        InitWith(plan, 3600,
                 DiveWith(CylinderTable(
                              <<Cylinder(AIR, "OC_GAS", size, start, end, used, deco),
                                Cylinder(EAN50, "OC_GAS", 11000, 200000, 9000, 550000, 0)>>),
                          mm[1]),
                 [DefaultPrefs EXCEPT !.planner_deco_mode = mm[2]],
                 NoError)

\* a deco ladder: an entered bottom leg, two stops and the ascents between
\* them, with a choice of cylinder for every leg and short or long stops
LadderPlan(c, stop1, stop2) ==
    <<Waypoint(30000, 1200, c[1], 0, TRUE),
      Waypoint(20000, 1260, c[2], 0, FALSE),
      Waypoint(20000, 1260 + stop1, c[3], 0, FALSE),
      Waypoint(10000, 1320 + stop1, c[4], 0, FALSE),
      Waypoint(10000, 1320 + stop1 + stop2, c[5], 0, FALSE),
      Waypoint(0, 1380 + stop1 + stop2, c[5], 0, FALSE)>>

InitLadder ==
    \E c \in [1..5 -> {0, 1}], stop1 \in {5, 120}, stop2 \in {5, 120},
       verbatim \in BOOLEAN, transitions \in BOOLEAN :
        InitWith(LadderPlan(c, stop1, stop2), 3600, DiveWith(StandardCylinders, "OC"),
                 [DefaultPrefs EXCEPT !.verbatim_plan = verbatim,
                                      !.display_transitions = transitions],
                 NoError)

\* a helium mix left for a nitrox: bottom and ascent on cylinder 0, a stop
\* and the final ascent on cylinder 1
GasSwitchPlan ==
    <<Waypoint(30000, 1200, 0, 0, TRUE), Waypoint(20000, 1260, 0, 0, FALSE),
      Waypoint(20000, 1500, 1, 0, FALSE), Waypoint(0, 1620, 1, 0, FALSE)>>

\* the same switch made on a stop of 5 seconds at the bottom
ShortSwitchPlan ==
    <<Waypoint(30000, 1200, 0, 0, TRUE), Waypoint(30000, 1205, 1, 0, FALSE),
      Waypoint(20000, 1300, 1, 0, FALSE), Waypoint(0, 1500, 1, 0, FALSE)>>

\* a bottom leg entered as two waypoints 5 seconds apart, then the ascent
ShortBottomPlan ==
    <<Waypoint(30000, 1200, 0, 0, TRUE), Waypoint(30000, 1205, 0, 0, TRUE),
      Waypoint(0, 1500, 0, 0, FALSE)>>

\* a descent on the stage, an ascent on the back gas and the rest of the
\* ascent on the stage again
TravelGasPlan ==
    <<Waypoint(30000, 1200, 1, 0, FALSE), Waypoint(20000, 1260, 0, 0, FALSE),
      Waypoint(0, 1500, 1, 0, FALSE)>>

\* a waypoint 5 seconds after the bottom leg, a placeholder at its depth, then
\* the ascent on the other cylinder
PlaceholderSwitchPlan ==
    <<Waypoint(30000, 1200, 0, 0, TRUE), Waypoint(30000, 1205, 0, 0, FALSE),
      Waypoint(30000, 0, 0, 0, FALSE), Waypoint(20000, 1300, 1, 0, FALSE),
      Waypoint(0, 1500, 1, 0, FALSE)>>

\* the same without the placeholder
DirectSwitchPlan ==
    <<Waypoint(30000, 1200, 0, 0, TRUE), Waypoint(30000, 1205, 0, 0, FALSE),
      Waypoint(20000, 1300, 1, 0, FALSE), Waypoint(0, 1500, 1, 0, FALSE)>>

\* gas changes around the ICD threshold, and helium in a cylinder that is or
\* is not an open circuit gas
InitIcd ==
    \E plan \in {GasSwitchPlan, ShortSwitchPlan, PlaceholderSwitchPlan, DirectSwitchPlan,
                 ShortBottomPlan, TravelGasPlan},
       he \in {0, 50, 100},
       o2to \in {248, 250, 251},
       use \in {"OC_GAS", "DILUENT"},
       verbatim \in BOOLEAN,
       transitions \in BOOLEAN :
        InitWith(plan, 3600,
                 DiveWith(CylinderTable(
                              <<Cylinder(Gasmix(210, he), use, 24000, 200000, 100000,
                                         2400000, 300000),
                                Cylinder(Gasmix(o2to, 0), "OC_GAS", 11000, 200000,
                                         150000, 550000, 550000)>>),
                          "OC"),
                 [DefaultPrefs EXCEPT !.verbatim_plan = verbatim,
                                      !.display_transitions = transitions],
                 NoError)

\* a bottom leg and a stop at 30.4 m, where the ambient pressure is 4 atm,
\* with a placeholder between them, and the final ascent in two legs
Po2Plan ==
    <<Waypoint(30400, 1200, 0, 0, TRUE), Waypoint(30400, 0, 1, 0, FALSE),
      Waypoint(30400, 1500, 1, 0, FALSE), Waypoint(15000, 1650, 1, 0, FALSE),
      Waypoint(0, 1800, 1, 0, FALSE)>>

\* mixes whose pO2 lies just below, at and just above the ceilings and the
\* 0.16 bar floor, open circuit and closed circuit
InitPo2 ==
    \E plan \in {Po2Plan},
       o2bottom \in {39, 40, 41, 349, 350, 351},
       o2deco \in {399, 400, 401, 1000},
       mode \in {"OC", "CCR"},
       verbatim \in BOOLEAN :
        InitWith(plan, 3600,
                 DiveWith(CylinderTable(
                              <<Cylinder(Gasmix(o2bottom, 0), "OC_GAS", 24000, 200000,
                                         100000, 2400000, 300000),
                                Cylinder(Gasmix(o2deco, 0), "OC_GAS", 11000, 200000,
                                         150000, 550000, 550000)>>),
                          mode),
                 [DefaultPrefs EXCEPT !.verbatim_plan = verbatim],
                 NoError)

\* n waypoints at 30 m, one minute apart, entered as e tells, and the final
\* ascent to the surface, all on cylinder 0
ConstantDepthPlan(n, e) ==
    [i \in 1..(n + 1) |->
        IF i <= n THEN Waypoint(30000, 1200 + 60 * i, 0, 0, e[i])
        ELSE Waypoint(0, 1500 + 60 * i, 0, 0, FALSE)]

\* a single gas at one depth and the final ascent, in the four display modes
InitConstantDepth ==
    \E n \in 1..3, e \in [1..3 -> BOOLEAN], verbatim \in BOOLEAN, transitions \in BOOLEAN :
        InitWith(ConstantDepthPlan(n, e), 3600, DiveWith(StandardCylinders, "OC"),
                 [DefaultPrefs EXCEPT !.verbatim_plan = verbatim,
                                      !.display_transitions = transitions],
                 NoError)

Init ==
    \/ InitPlans \/ InitControl \/ InitCylinders \/ InitLadder \/ InitIcd \/ InitPo2
    \/ InitConstantDepth

Next ==
    \/ Call
    \/ EmptyPlan
    \/ Aborted
    \/ Overlapping
    \/ Header
    \/ SkipPlaceholder
    \/ SkipLeg
    \/ SkipShort
    \/ NullDerefCrash
    \/ VerbatimLeg
    \/ CollapsedLeg
    \/ Summary
    \/ CylinderRow
    \/ IcdSection
    \/ Po2Check

Spec == Init /\ [][Next]_vars

-----------------------------------------------------------------------------
(* Properties *)

\* the call has returned
Returned == pc = "done"

HasPart(n, part) == \E i \in 1..Len(n.parts) : n.parts[i] = part

\* the cylinders that get a consumption row: those before the first unused slot
RECURSIVE UsedCylinders(_)
UsedCylinders(i) ==
    IF i > MAX_CYLINDERS THEN 0
    ELSE IF dive.cylinder[i].size = 0 /\ dive.cylinder[i].gasmix = ZeroGasmix
            /\ dive.cylinder[i].start = 0 /\ dive.cylinder[i].end = 0
    THEN 0
    ELSE 1 + UsedCylinders(i + 1)

\* notes that hold every block of the full report
IsFullReport(n) ==
    /\ \E b \in {"banner_created", "banner_interval"} : HasPart(n, b)
    /\ \E r \in {"runtime", "runtime_variations"} : HasPart(n, r)
    /\ ~prefs.verbatim_plan => HasPart(n, "table_head") /\ HasPart(n, "table_end")
    /\ HasPart(n, "cns_otu") /\ n.cns >= 0 /\ n.otu >= 0
    /\ \E d \in {"deco_buehlmann", "deco_vpmb", "deco_recreational"} : HasPart(n, d)
    /\ \E c \in {"consumption_sac", "consumption_ccr"} : HasPart(n, c)
    /\ Len(n.cylrows) = UsedCylinders(1)
    /\ HasPart(n, "end")

\* notes that hold a block of the full report
IsPartialReport(n) ==
    \/ \E b \in {"banner_created", "banner_interval", "banner_overlapping",
                 "cns_otu", "consumption_sac", "consumption_ccr"} : HasPart(n, b)
    \/ n.cylrows # <<>>

(* C1: report generation with error = 0 never faults: no run of the waypoint
   loop reads through the missing successor of the terminal waypoint. *)
C1_NeverFaults == pc # "crashed"

(* C2 as stated: whenever error != 0, the call leaves exactly the one warning
   line as the report. *)
C2_AbortAlwaysWarns ==
    (Returned /\ args.error # 0) => dive.notes.parts = <<"warning_aborted">>

(* C2 as amended: whenever error != 0 and the plan has at least one waypoint,
   the report is exactly the one warning line, without leg rows or consumption
   rows; CNS and max CNS keep their values, the cylinder usage update is not
   invoked and no waypoint's minimum_gas is written. *)
C2_AbortShortCircuits ==
    (Returned /\ args.error # 0 /\ Len(diveplan.dp) > 0) =>
        /\ dive.notes = [EmptyBuffer EXCEPT !.parts = <<"warning_aborted">>]
        /\ dive.cns = old.dive.cns
        /\ dive.maxcns = old.dive.maxcns
        /\ dive.otu = old.dive.otu
        /\ dive.updates = old.dive.updates
        /\ diveplan = old.diveplan

C2_Witness ==
    /\ Returned
    /\ args.error # 0
    /\ Len(diveplan.dp) > 1
    /\ dive.notes.parts = <<"warning_aborted">>
    /\ dive.cns # 0

\* the empty plan of C3: no waypoint, or none with a time after the first
C3_EmptyPlan == \A i \in 2..Len(diveplan.dp) : diveplan.dp[i].time = 0

(* C3: a call on an empty plan never leaves a partially built report in the
   dive's notes: no banner, no CNS/OTU block, no consumption rows. *)
C3_EmptyPlanNoReport ==
    (Returned /\ C3_EmptyPlan) => ~IsPartialReport(dive.notes)

(* C4 as stated: for every plan with a waypoint and error = 0, whatever the
   surface interval, the call leaves the full report. *)
C4_AlwaysFullReport ==
    (Returned /\ args.error = 0 /\ Len(diveplan.dp) > 0) => IsFullReport(dive.notes)

(* C4 as amended: for a plan with a waypoint and error = 0, a negative surface
   interval ends the call early with the disclaimer and the overlapping dives
   banner alone; with any other surface interval a call that returns has
   written the full report. *)
C4_FullReportUnlessOverlapping ==
    (Returned /\ args.error = 0 /\ Len(diveplan.dp) > 0) =>
        IF diveplan.surface_interval < 0
        THEN /\ dive.notes.parts \in {<<"banner_overlapping">>,
                                      <<"disclaimer", "banner_overlapping">>}
             /\ ~IsFullReport(dive.notes)
        ELSE IsFullReport(dive.notes)

C4_Witness ==
    /\ Returned
    /\ args.error = 0
    /\ diveplan.surface_interval >= 172800
    /\ IsFullReport(dive.notes)
    /\ dive.notes.rows # <<>>

\* the cylinder a consumption row was printed for
RowCylinder(r) == dive.cylinder[r.gasidx + 1]

\* the gas left at the end pressure is less than the gas of the planned ascent
RowLacksReserve(r) ==
    LET cyl == RowCylinder(r)
        z == gas_compressibility_factor(cyl.gasmix, cyl.end)
    IN (cyl.end \div z) * cyl.size + ((cyl.end % z) * cyl.size) \div z
           < cyl.deco_gas_used

\* the row is the one of the last bottom waypoint's cylinder, and the minimum
\* gas calculation was made for it
RowHasMingasCalculation(r) ==
    /\ lv.lastbottomdp # NULL
    /\ r.gasidx = diveplan.dp[lv.lastbottomdp].cylinderid
    /\ dive.divemode = "OC"
    /\ prefs.planner_deco_mode # "RECREATIONAL"
    /\ RowCylinder(r).size # 0
    /\ RowCylinder(r).end >= 10000
    /\ ~RowLacksReserve(r)

\* the required minimum gas pressure the calculation stored in the waypoint
RequiredPressure == diveplan.dp[lv.lastbottomdp].minimum_gas

(* C5 as stated: in the minimum gas calculation, a start pressure above the
   required pressure gives a positive margin shown green and no warning; a
   start pressure not above it gives the hard warning and no margin. *)
C5_MarginAlwaysPositive ==
    \A i \in 1..Len(buffer.cylrows) :
        LET r == buffer.cylrows[i]
        IN RowHasMingasCalculation(r) =>
               IF RowCylinder(r).start > RequiredPressure
               THEN /\ r.mingas.shown
                    /\ r.mingas.delta > 0
                    /\ r.mingas.colour = "green"
                    /\ r.warning = "none"
               ELSE /\ r.warning = "mingas_exceeds_start"
                    /\ ~r.mingas.shown

(* C5 as amended: in the minimum gas calculation, a start pressure above the
   required pressure gives the minimum gas figure with its margin and no
   warning, the margin being shown green when it is positive and red when it
   is not; a start pressure not above the required pressure gives the hard
   warning and no margin. *)
C5_MarginSignColoured ==
    \A i \in 1..Len(buffer.cylrows) :
        LET r == buffer.cylrows[i]
        IN RowHasMingasCalculation(r) =>
               IF RowCylinder(r).start > RequiredPressure
               THEN /\ r.mingas.shown
                    /\ r.mingas.pressure = RequiredPressure
                    /\ r.mingas.colour = (IF r.mingas.delta > 0 THEN "green" ELSE "red")
                    /\ r.warning = "none"
               ELSE /\ r.warning = "mingas_exceeds_start"
                    /\ ~r.mingas.shown

C5_Witness ==
    \E i \in 1..Len(buffer.cylrows) :
        LET r == buffer.cylrows[i]
        IN /\ RowHasMingasCalculation(r)
           /\ RowCylinder(r).start > RequiredPressure
           /\ r.mingas.shown
           /\ r.mingas.delta <= 0
           /\ r.mingas.colour = "red"

\* the row carries output of the minimum gas calculation
RowHasMingasOutput(r) == r.mingas.shown \/ r.warning = "mingas_exceeds_start"

(* C6: a consumption row carries a minimum gas figure or the 'required minimum
   gas exceeding start pressure' warning only if the dive mode is open circuit,
   the deco model is not recreational, a last bottom waypoint was identified
   and the row is the one of its cylinder, and neither 'more gas than
   available' nor 'not enough reserve' applies to the cylinder; at most one row
   of a report carries such output. *)
C6_MingasOnlyForLastBottom ==
    /\ \A i \in 1..Len(buffer.cylrows) :
           RowHasMingasOutput(buffer.cylrows[i]) =>
               RowHasMingasCalculation(buffer.cylrows[i])
    /\ Cardinality({i \in 1..Len(buffer.cylrows) :
                        RowHasMingasOutput(buffer.cylrows[i])}) <= 1

C6_Witness ==
    /\ Len(buffer.cylrows) = 2
    /\ RowHasMingasOutput(buffer.cylrows[2])
    /\ ~RowHasMingasOutput(buffer.cylrows[1])

(* C7: the row of a cylinder of non-zero size carries exactly the 'more gas
   than available' warning if its end pressure is below 10000 mbar; otherwise
   exactly the 'not enough reserve' warning if the gas left at the end pressure
   is less than deco_gas_used; an end pressure of 10000 mbar does not give the
   first warning; a row with either warning has no minimum gas output; and
   every cylinder before the first unused slot has its row. *)
C7_GasWarnings ==
    /\ \A i \in 1..Len(buffer.cylrows) :
           LET r == buffer.cylrows[i]
               cyl == RowCylinder(r)
           IN /\ r.gasidx = i - 1
              /\ cyl.size # 0 =>
                    /\ (r.warning = "more_gas_than_available") = (cyl.end < 10000)
                    /\ (r.warning = "not_enough_reserve")
                           = (cyl.end >= 10000 /\ RowLacksReserve(r))
                    /\ r.warning \in {"more_gas_than_available", "not_enough_reserve"}
                           => ~r.mingas.shown
    /\ pc = "po2" => Len(buffer.cylrows) = UsedCylinders(1)

C7_Witness ==
    \E i \in 1..Len(buffer.cylrows) :
        /\ RowCylinder(buffer.cylrows[i]).size # 0
        /\ RowCylinder(buffer.cylrows[i]).end = 10000
        /\ buffer.cylrows[i].warning = "not_enough_reserve"

\* the waypoints that are not placeholders
RealWaypoints == {i \in 1..Len(diveplan.dp) : diveplan.dp[i].time # 0}

\* the real waypoint that follows real waypoint i, NULL if there is none
NextReal(i) ==
    LET later == {j \in RealWaypoints : j > i}
    IN IF later = {} THEN NULL ELSE CHOOSE j \in later : \A k \in later : j <= k

\* the real waypoints after which the gas changes while the mix that is left
\* holds helium
HeliumGasChanges ==
    {i \in RealWaypoints :
        /\ NextReal(i) # NULL
        /\ get_he(CylinderGasmix(diveplan.dp[i].cylinderid)) > 0
        /\ CylinderGasmix(diveplan.dp[i].cylinderid)
               # CylinderGasmix(diveplan.dp[NextReal(i)].cylinderid)}

OpenCircuitPlan ==
    /\ dive.divemode = "OC"
    /\ \A i \in 1..Len(diveplan.dp) : diveplan.dp[i].setpoint = 0

(* C8: when the waypoint loop of an open circuit plan has finished, one ICD
   entry has been recorded for every gas change between two consecutive real
   waypoints whose departing mix holds helium, in verbatim and in collapsed
   mode, on ascent, on descent and at constant depth, and each entry's from-gas
   and to-gas are the mixes breathed before and after a change. *)
C8_IcdEntryPerHeliumChange ==
    (pc = "summary" /\ OpenCircuitPlan) =>
        /\ Len(icdbuffer) = Cardinality(HeliumGasChanges)
        /\ \A k \in 1..Len(icdbuffer) :
               \E i \in HeliumGasChanges :
                   /\ icdbuffer[k].gas_from = CylinderGasmix(diveplan.dp[i].cylinderid)
                   /\ icdbuffer[k].gas_to
                          = CylinderGasmix(diveplan.dp[NextReal(i)].cylinderid)

(* C9: an ICD entry is marked as a violation exactly when 5 * dN2 > -dHe,
   strictly, on the integer permille deltas it shows (shown as percentages with
   two decimals, ten times the permille value): with dHe = -50 it is marked for
   dN2 = 12 and not for dN2 = 9 nor for dN2 = 10; the maximum dN2 it shows is
   -dHe / 5. *)
C9_IcdViolationStrict ==
    \A k \in 1..Len(icdbuffer) :
        LET e == icdbuffer[k]
        IN /\ e.dHe % 10 = 0 /\ e.dN2 % 10 = 0
           /\ e.red = (5 * (e.dN2 \div 10) > -(e.dHe \div 10))
           /\ 5 * e.maxdN2 = -e.dHe
           /\ e.dHe = -500 =>
                  /\ e.dN2 = 120 => e.red
                  /\ e.dN2 \in {90, 100} => ~e.red

C9_Witness ==
    \E k \in 1..Len(icdbuffer) :
        /\ icdbuffer[k].dHe = -500
        /\ icdbuffer[k].dN2 = 100
        /\ ~icdbuffer[k].red
        /\ icdbuffer[k].maxdN2 = 100

\* a cylinder of the dive is an open circuit gas that holds helium
HasOpenCircuitHelium ==
    \E i \in 1..MAX_CYLINDERS :
        dive.cylinder[i].cylinder_use = "OC_GAS" /\ dive.cylinder[i].gasmix.he > 0

(* C10: the notes of a call that returned hold the ICD table only if a cylinder
   of the dive with open circuit use holds helium, and hold the 'conditions
   exceeded' warning only with the table; a full report holds the table exactly
   when such a cylinder exists, whatever the waypoints and gas changes. *)
C10_IcdSectionOnlyForTrimix ==
    Returned =>
        /\ HasPart(dive.notes, "icd_table") => HasOpenCircuitHelium
        /\ HasPart(dive.notes, "icd_warning") => HasPart(dive.notes, "icd_table")
        /\ ~HasPart(dive.notes, "icd_table") => dive.notes.icd = <<>>
        /\ HasPart(dive.notes, "end") =>
               (HasPart(dive.notes, "icd_table") <=> HasOpenCircuitHelium)

C10_Witness ==
    /\ Returned
    /\ HasPart(dive.notes, "end")
    /\ ~HasOpenCircuitHelium
    /\ \E i \in 1..MAX_CYLINDERS : dive.cylinder[i].gasmix.he > 0
    /\ icdbuffer # <<>>
    /\ ~HasPart(dive.notes, "icd_table")

\* the returned call wrote the whole report, pO2 check included
FullReportWritten == Returned /\ HasPart(dive.notes, "end")

\* the kinds of the pO2 warnings the notes hold for waypoint i
Po2WarningsOf(i) ==
    {dive.notes.po2[k].kind :
         k \in {j \in 1..Len(dive.notes.po2) : dive.notes.po2[j].dp = i}}

\* pO2 of waypoint i in units of 1 / 101325000 bar: the O2 fraction in permille
\* times the ambient pressure in mbar times 100
WaypointPo2(i) ==
    dive.cylinder[diveplan.dp[i].cylinderid + 1].gasmix.o2
        * depth_to_mbar(diveplan.dp[i].depth) * 100

\* the ceiling of waypoint i in the same units
WaypointCeiling(i) ==
    101325 * (IF diveplan.dp[i].entered THEN prefs.bottompo2 ELSE prefs.decopo2)

(* C11: in the pO2 check of an open circuit dive, a waypoint of non-zero time
   gets the 'high pO2' warning exactly when its pO2 is strictly greater than
   its ceiling (bottompo2 if entered, decopo2 otherwise), none when the pO2
   equals the ceiling, and the 'low pO2' warning exactly when its pO2 is below
   0.16 bar and the high warning does not apply; it never gets both, nor one
   of them twice. *)
C11_Po2WarningStrict ==
    (FullReportWritten /\ dive.divemode = "OC") =>
        \A i \in 1..Len(diveplan.dp) :
            diveplan.dp[i].time # 0 =>
                /\ ("high" \in Po2WarningsOf(i)) = (WaypointPo2(i) > WaypointCeiling(i))
                /\ ("low" \in Po2WarningsOf(i))
                       = (WaypointPo2(i) < 101325 * 160
                              /\ ~(WaypointPo2(i) > WaypointCeiling(i)))
                /\ Cardinality({k \in 1..Len(dive.notes.po2) :
                                    dive.notes.po2[k].dp = i}) <= 1

C11_Witness ==
    /\ FullReportWritten
    /\ dive.divemode = "OC"
    /\ \E i, j \in 1..Len(diveplan.dp) :
           /\ diveplan.dp[i].time # 0 /\ diveplan.dp[j].time # 0
           /\ diveplan.dp[i].entered /\ ~diveplan.dp[j].entered
           /\ WaypointPo2(i) = WaypointCeiling(i)
           /\ WaypointPo2(j) = WaypointCeiling(j)
           /\ Po2WarningsOf(i) = {} /\ Po2WarningsOf(j) = {}

(* C12: the pO2 check looks at every waypoint of non-zero time, also at one
   the waypoint loop skipped or printed no line for, and at no waypoint of
   time 0; on a closed circuit (CCR) dive it gives no warning at all; the
   warnings are in the order of the waypoints. *)
C12_Po2CheckCoversRealWaypoints ==
    FullReportWritten =>
        /\ dive.divemode = "CCR" => dive.notes.po2 = <<>>
        /\ \A k \in 1..Len(dive.notes.po2) :
               /\ dive.notes.po2[k].dp \in 1..Len(diveplan.dp)
               /\ diveplan.dp[dive.notes.po2[k].dp].time # 0
               /\ k > 1 => dive.notes.po2[k - 1].dp < dive.notes.po2[k].dp
        /\ dive.divemode # "CCR" =>
               \A i \in 1..Len(diveplan.dp) :
                   (/\ diveplan.dp[i].time # 0
                    /\ \/ WaypointPo2(i) > WaypointCeiling(i)
                       \/ WaypointPo2(i) < 101325 * 160)
                       => Po2WarningsOf(i) # {}

\* a warning for a waypoint without a line in the plan, next to a placeholder
\* that would have got one and has none
C12_Witness ==
    /\ FullReportWritten
    /\ \E i \in 1..Len(diveplan.dp) :
           /\ Po2WarningsOf(i) # {}
           /\ \A r \in 1..Len(dive.notes.rows) : dive.notes.rows[r].dp # i
    /\ \E i \in 1..Len(diveplan.dp) :
           /\ diveplan.dp[i].time = 0
           /\ WaypointPo2(i) > WaypointCeiling(i)
           /\ Po2WarningsOf(i) = {}

\* the plan is a single gas at one constant depth, ended by one final ascent:
\* real waypoints at least 10 s apart, no setpoint
SingleGasFinalAscent ==
    LET dps == diveplan.dp
        n == Len(dps)
    IN /\ n >= 2
       /\ \A i \in 1..n :
              /\ dps[i].time # 0
              /\ dps[i].setpoint = 0
              /\ dps[i].cylinderid = dps[1].cylinderid
              /\ i > 1 => dps[i].time >= dps[i - 1].time + 10
              /\ i < n => dps[i].depth = dps[1].depth
       /\ dps[n].depth < dps[1].depth

\* the waypoints the notes hold a line or row for
RowWaypoints == {dive.notes.rows[r].dp : r \in 1..Len(dive.notes.rows)}

(* C13 as stated: for a single gas at one constant depth ended by a single
   final ascent, the collapsed plan has exactly 2 leg rows and the verbatim
   plan has exactly one line for every waypoint whose time differs from that
   of the waypoint before it. *)
C13_TwoRowsOrLinePerWaypoint ==
    (FullReportWritten /\ SingleGasFinalAscent) =>
        IF prefs.verbatim_plan
        THEN /\ RowWaypoints = 1..Len(diveplan.dp)
             /\ Len(dive.notes.rows) = Len(diveplan.dp)
        ELSE Len(dive.notes.rows) = 2

\* the waypoints of such a plan that get a row of the collapsed plan
CollapsedRowsExpected ==
    LET dps == diveplan.dp
        n == Len(dps)
    IN {1, n - 1, n}
           \cup {i \in 1..n : prefs.display_transitions \/ dps[i].entered}
           \cup {i \in 2..n : dps[i - 1].entered /\ ~dps[i].entered}

\* the waypoints of such a plan that get a line of the verbatim plan
VerbatimLinesExpected ==
    LET dps == diveplan.dp
        n == Len(dps)
    IN {n}
           \cup (IF n > 2 THEN {n - 1} ELSE {})
           \cup (IF prefs.display_transitions \/ dps[1].entered THEN {1} ELSE {})

(* C13 as amended: for a single gas at one constant depth ended by a single
   final ascent, the collapsed plan has one row for the ascent, for the first
   waypoint, for the last waypoint at the depth, for every entered waypoint
   and for every waypoint that follows an entered one (for every waypoint when
   display_transitions is set), hence exactly 2 rows when one waypoint
   precedes the ascent; the verbatim plan has a line for the ascent, a 'stay'
   line for the last waypoint at the depth when it is not the first, and a
   line for the first waypoint when that is entered or display_transitions is
   set, and no line for the other waypoints. *)
C13_ConstantDepthRows ==
    (FullReportWritten /\ SingleGasFinalAscent) =>
        /\ RowWaypoints = (IF prefs.verbatim_plan THEN VerbatimLinesExpected
                           ELSE CollapsedRowsExpected)
        /\ Len(dive.notes.rows) = Cardinality(RowWaypoints)
        /\ (~prefs.verbatim_plan /\ Len(diveplan.dp) = 2) => Len(dive.notes.rows) = 2

C13_Witness ==
    /\ FullReportWritten
    /\ SingleGasFinalAscent
    /\ Len(diveplan.dp) = 4
    /\ ~prefs.display_transitions
    /\ ~diveplan.dp[1].entered /\ ~diveplan.dp[2].entered /\ ~diveplan.dp[3].entered
    /\ ~prefs.verbatim_plan
    /\ RowWaypoints = {1, 3, 4}

\* the real waypoints of the plan are in the order of their times
NonDecreasingTimes ==
    \A i, j \in 1..Len(diveplan.dp) :
        (i < j /\ diveplan.dp[i].time # 0 /\ diveplan.dp[j].time # 0)
            => diveplan.dp[i].time <= diveplan.dp[j].time

\* the rows of the buffer that show a runtime, in their order
RECURSIVE RuntimesShown(_)
RuntimesShown(rows) ==
    IF rows = <<>> THEN <<>>
    ELSE LET r == Head(rows)
         IN (IF r.kind = "leg" /\ r.runtime >= 0 THEN <<r.runtime * 60>>
             ELSE IF r.kind \in {"transition", "stay"}
             THEN <<r.runtime[1] * 60 + r.runtime[2]>>
             ELSE <<>>) \o RuntimesShown(Tail(rows))

(* C14: for a plan whose real waypoints have non-decreasing times, the
   runtimes of the lines or rows written so far are non-decreasing in their
   order, in the collapsed and in the verbatim plan. *)
C14_RuntimesNonDecreasing ==
    NonDecreasingTimes =>
        LET shown == RuntimesShown(buffer.rows)
        IN \A k \in 2..Len(shown) : shown[k - 1] <= shown[k]

C14_Witness ==
    LET shown == RuntimesShown(buffer.rows)
    IN /\ ~prefs.verbatim_plan
       /\ Len(shown) >= 4
       /\ \E k \in 2..Len(shown) : shown[k - 1] = shown[k]
       /\ \E k \in 2..Len(shown) : shown[k - 1] < shown[k]

(* C15: a second call in succession on the same plan, cylinders, dive and
   options leaves the same notes as the first call did, and the same values in
   the fields of the dive, of its cylinders and of the waypoints that a call
   writes. *)
C15_SecondCallSameResult ==
    (Returned /\ ncalls >= 2) =>
        /\ dive.notes = old.dive.notes
        /\ dive.cns = old.dive.cns
        /\ dive.maxcns = old.dive.maxcns
        /\ dive.otu = old.dive.otu
        /\ dive.cylinder = old.dive.cylinder
        /\ diveplan = old.diveplan

\* the banners the notes hold
BannersOf(n) ==
    {n.parts[k] : k \in {j \in 1..Len(n.parts) :
                             n.parts[j] \in {"banner_overlapping", "banner_created",
                                             "banner_interval"}}}

(* C16: the banner of a call that returned on a plan with a waypoint and
   without error is of exactly one of three classes, decided by
   surface_interval alone: 'overlapping dives detected' iff the interval is
   negative; created without interval iff the interval is 172800 s (48 hours)
   or more; with the interval as h:mm iff it is from 0 to 172799 s. *)
C16_BannerClass ==
    (Returned /\ args.error = 0 /\ Len(diveplan.dp) > 0) =>
        LET t == diveplan.surface_interval
        IN /\ BannersOf(dive.notes) =
                  (IF t < 0 THEN {"banner_overlapping"}
                   ELSE IF t >= 172800 THEN {"banner_created"}
                   ELSE {"banner_interval"})
           /\ Cardinality({j \in 1..Len(dive.notes.parts) :
                               dive.notes.parts[j] \in {"banner_overlapping",
                                                        "banner_created",
                                                        "banner_interval"}}) = 1
           /\ (0 <= t /\ t < 172800) =>
                  dive.notes.banner = <<t \div 3600, (t \div 60) % 60>>
           /\ ~(0 <= t /\ t < 172800) => dive.notes.banner = <<>>

C16_Witness ==
    /\ Returned
    /\ diveplan.surface_interval = 172800
    /\ BannersOf(dive.notes) = {"banner_created"}
    /\ dive.notes.banner = <<>>

\* the row is the one of the last bottom waypoint's cylinder on an open
\* circuit dive whose deco model is not the recreational one
RowOfLastBottomCylinder(r) ==
    /\ lv.lastbottomdp # NULL
    /\ r.gasidx = diveplan.dp[lv.lastbottomdp].cylinderid
    /\ dive.divemode = "OC"
    /\ prefs.planner_deco_mode # "RECREATIONAL"

(* C17: the consumption row of a cylinder of size zero reports the gas used
   and, when the gas used shown in whole litres is above zero, the gas of the
   ascent, and nothing that depends on pressure: no pressure figure, no
   warning, no minimum gas output, whatever its end pressure and whether or
   not it is the last bottom waypoint's cylinder; the rows of the cylinders
   after it are generated all the same. *)
C17_SizeZeroRow ==
    /\ \A i \in 1..Len(buffer.cylrows) :
           LET r == buffer.cylrows[i]
               cyl == RowCylinder(r)
           IN cyl.size = 0 =>
                 /\ r.volume = VolumeShown(cyl.gas_used)
                 /\ r.deco_volume = (IF VolumeShown(cyl.gas_used) > 0
                                     THEN VolumeShown(cyl.deco_gas_used) ELSE -1)
                 /\ r.pressure = -1
                 /\ r.deco_pressure = -1
                 /\ r.warning = "none"
                 /\ ~r.mingas.shown
    /\ FullReportWritten => Len(dive.notes.cylrows) = UsedCylinders(1)

C17_Witness ==
    /\ FullReportWritten
    /\ Len(dive.notes.cylrows) = 2
    /\ LET r == dive.notes.cylrows[1]
       IN /\ RowCylinder(r).size = 0
          /\ RowCylinder(r).end < 10000
          /\ RowOfLastBottomCylinder(r)
          /\ r.volume > 0
          /\ r.deco_volume > 0
          /\ r.warning = "none"

\* the waypoint with the minimum_gas it had before the call
WithOldMinimumGas(i) ==
    [diveplan.dp[i] EXCEPT !.minimum_gas = old.diveplan.dp[i].minimum_gas]

(* C18 as stated: after a call every field of every waypoint and the order of
   the waypoints are what they were before the call. *)
C18_WaypointsUnchanged ==
    Returned => diveplan.dp = old.diveplan.dp

(* C18 as amended: during and after a call the depth, time, cylinder id,
   setpoint and entered flag of every waypoint and the order of the waypoints
   are what they were before the call; minimum_gas is what it was in every
   waypoint but the last bottom waypoint, where it is overwritten with the
   required minimum gas pressure when the minimum gas calculation is made for
   its cylinder. *)
C18_OnlyMinimumGasWritten ==
    pc # "idle" =>
        /\ Len(diveplan.dp) = Len(old.diveplan.dp)
        /\ \A i \in 1..Len(diveplan.dp) :
               /\ WithOldMinimumGas(i) = old.diveplan.dp[i]
               /\ diveplan.dp[i].minimum_gas # old.diveplan.dp[i].minimum_gas =>
                      /\ i = lv.lastbottomdp
                      /\ diveplan.dp[i].minimum_gas =
                             minimum_gas(dive.cylinder[diveplan.dp[i].cylinderid + 1])
                      /\ \E k \in 1..Len(buffer.cylrows) :
                             RowHasMingasCalculation(buffer.cylrows[k])
        /\ (\E k \in 1..Len(buffer.cylrows) :
                RowHasMingasCalculation(buffer.cylrows[k])) =>
               diveplan.dp[lv.lastbottomdp].minimum_gas =
                   minimum_gas(dive.cylinder[diveplan.dp[lv.lastbottomdp].cylinderid + 1])

C18_Witness ==
    /\ Returned
    /\ \E i \in 1..Len(diveplan.dp) :
           /\ diveplan.dp[i].minimum_gas # old.diveplan.dp[i].minimum_gas
           /\ diveplan.dp[i].minimum_gas > 0
           /\ WithOldMinimumGas(i) = old.diveplan.dp[i]

\* the conditions under which a row of the leg table is promised for the
\* waypoint at hand
ListedEmitCond ==
    \/ prefs.display_transitions
    \/ Dp.entered
    \/ DpNext = NULL
    \/ (DepthChangesNext /\ ~isascent /\ gaschange_before)
    \/ (gaschange_after /\ ~isascent)
    \/ (gaschange_after /\ lv.lastentered)

\* the step appends a row of the leg table for the waypoint at hand
RowEmitted ==
    /\ Len(buffer'.rows) = Len(buffer.rows) + 1
    /\ buffer'.rows[Len(buffer'.rows)].dp = lv.dp

(* C19: in the leg table (not verbatim), the step on a waypoint that passed
   both skip rules appends a row for it whenever display_transitions is set,
   or the waypoint is entered, or it is the last of the sequence, or its depth
   differs from the next real waypoint's and it is not an ascent and a gas
   change precedes it, or a gas change follows it and it is not an ascent, or
   a gas change follows it and the waypoint processed before was entered. *)
C19_ListedLegsEmitted ==
    [][(Processed /\ ~prefs.verbatim_plan /\ ListedEmitCond) => RowEmitted]_vars

\* the same for the steps on which the read of line 218 does not trap
ListedLegsEmittedUnlessTrapped ==
    [][(Processed /\ ~prefs.verbatim_plan /\ ListedEmitCond /\ pc' # "crashed")
           => RowEmitted]_vars

\* the real waypoint before waypoint i, NULL when there is none
RECURSIVE PrevReal(_)
PrevReal(i) ==
    IF i <= 1 THEN NULL
    ELSE IF diveplan.dp[i - 1].time # 0 THEN i - 1
    ELSE PrevReal(i - 1)

\* the gas or the setpoint of the waypoint at hand is not the one of the real
\* waypoint before it; the first real waypoint starts on its gas
GasChangePrecedes ==
    LET p == PrevReal(lv.dp)
    IN \/ p = NULL
       \/ gasmix_distance(CylinderGasmix(diveplan.dp[p].cylinderid), gasmix) # 0
       \/ diveplan.dp[p].setpoint # Dp.setpoint

\* a transient waypoint of the deco ladder: not entered, away from the last
\* depth, the next real waypoint at another depth, no change of gas or setpoint
\* before or after it
TransientWaypoint ==
    /\ pc = "loop"
    /\ Dp.time # 0
    /\ ~Dp.entered
    /\ Dp.depth # lv.lastdepth
    /\ DepthChangesNext
    /\ ~GasChangePrecedes
    /\ ~gaschange_after

\* the step adds no line and leaves the tracking state of the loop as it was
NothingReported ==
    /\ buffer' = buffer
    /\ icdbuffer' = icdbuffer
    /\ [lv' EXCEPT !.dp = lv.dp, !.nextdp = lv.nextdp] = lv

(* C20 as stated: the step on a transient waypoint adds no line and leaves
   last depth, last time, last printed depth, last printed gas and setpoint,
   the last entered flag and the last bottom waypoint as they were, whether
   the plan is shown verbatim or as the leg table. *)
C20_TransientSkippedBothModes ==
    [][TransientWaypoint => NothingReported]_vars

\* the waypoint at hand is not entered, away from the last depth, the next
\* real waypoint is at another depth, its gas and setpoint are the last ones
\* printed and those of the next real waypoint
NothingToReport ==
    /\ pc = "loop"
    /\ Dp.time # 0
    /\ ~Dp.entered
    /\ Dp.depth # lv.lastdepth
    /\ DepthChangesNext
    /\ ~gaschange_before
    /\ ~gaschange_after

(* C20 as amended: the step on a waypoint that is not entered, whose depth is
   not the last depth, whose next real waypoint is at another depth, whose gas
   and setpoint are the last printed ones and the ones of the next real
   waypoint, adds no line and leaves the tracking state of the loop as it was;
   in a verbatim plan the last printed setpoint is never recorded, so that no
   waypoint is in this case there. *)
C20_SkippedWhenLastPrintedGas ==
    /\ [][NothingToReport => NothingReported]_vars
    /\ [](pc = "loop" /\ prefs.verbatim_plan /\ Dp.time # 0 => gaschange_before)

C20_Witness ==
    /\ FullReportWritten
    /\ ~prefs.verbatim_plan
    /\ dive.notes.rows # <<>>
    /\ \E i \in RealWaypoints :
           /\ i > 1
           /\ ~diveplan.dp[i].entered
           /\ diveplan.dp[i].time - diveplan.dp[i - 1].time >= 10
           /\ diveplan.dp[i].depth # diveplan.dp[i - 1].depth
           /\ NextReal(i) # NULL
           /\ diveplan.dp[NextReal(i)].depth # diveplan.dp[i].depth
           /\ i \notin RowWaypoints

\* the waypoint at hand is at the last depth and less than 10 seconds after
\* the last reported time
ShortAtLastDepth ==
    /\ pc = "loop"
    /\ Dp.time # 0
    /\ Dp.time - lv.lasttime < 10
    /\ lv.lastdepth = Dp.depth

(* C21: the step on a waypoint at the last depth and less than 10 seconds
   after the last reported time adds no row and leaves the tracking state as
   it was, unless a gas change follows the waypoint and the next real
   waypoint is at another depth, in which case the waypoint is processed; a
   placeholder of time 0 after the waypoint makes no difference. *)
C21_ShortStopSkipped ==
    [][ShortAtLastDepth =>
           (NothingReported <=> ~(gaschange_after /\ DepthChangesNext))]_vars

\* the same with the depth that follows taken from dp->next, placeholder or not
ShortStopSkippedByRawNext ==
    [][ShortAtLastDepth =>
           (NothingReported <=>
                ~(gaschange_after /\ DpNext # NULL
                      /\ Dp.depth # diveplan.dp[DpNext].depth))]_vars

\* the entered real waypoints whose next real waypoint is not entered
BottomCandidates ==
    {i \in RealWaypoints :
         /\ diveplan.dp[i].entered
         /\ NextReal(i) # NULL
         /\ ~diveplan.dp[NextReal(i)].entered}

\* the last of them, NULL when there is none
LastBottomCandidate ==
    IF BottomCandidates = {} THEN NULL
    ELSE CHOOSE i \in BottomCandidates : \A j \in BottomCandidates : j <= i

\* the loop over the waypoints has run to its end
WalkedAll == pc \in {"summary", "cylinders", "po2"}

(* C22: when the loop has walked all waypoints, lastbottomdp is the last
   entered waypoint of non-zero time whose next real waypoint is not entered,
   and is not set when there is no such waypoint, in a verbatim plan and in
   the leg table, whether or not a skip rule skipped that waypoint. *)
C22_LastBottomIsLastEntered ==
    WalkedAll => lv.lastbottomdp = LastBottomCandidate

\* the leg table row of this step has a gas change on both of its edges
BothGasChanges ==
    /\ Processed
    /\ ~prefs.verbatim_plan
    /\ CollapsedEmitCond
    /\ gaschange_before
    /\ gaschange_after

\* the row the step appends
NewRow == buffer'.rows[Len(buffer'.rows)]

\* the leg is an ascent or entered, and no stop follows it at once
TrailingPreferred ==
    /\ isascent \/ Dp.entered
    /\ DepthChangesNext \/ diveplan.dp[NextDp].entered

\* the gas or setpoint of real waypoint i is not the one of the next real one
ChangeFollows(i) ==
    /\ NextReal(i) # NULL
    /\ \/ gasmix_distance(CylinderGasmix(diveplan.dp[i].cylinderid),
                          CylinderGasmix(diveplan.dp[NextReal(i)].cylinderid)) # 0
       \/ diveplan.dp[i].setpoint # diveplan.dp[NextReal(i)].setpoint

\* every row that shows its own gas although a change follows its waypoint is
\* followed by a row that shows the gas of the next real waypoint as the gas
\* of its own leg
TrailingShownOnNextRow(rows) ==
    \A k \in 1..Len(rows) :
        (rows[k].change = "leading" /\ ChangeFollows(rows[k].dp)) =>
            /\ k < Len(rows)
            /\ rows[k + 1].change = "leading"
            /\ rows[k + 1].gas
                   = CylinderGasmix(diveplan.dp[NextReal(rows[k].dp)].cylinderid)

(* C23: in the leg table, a row with a gas change on both edges shows the
   gas that follows (the trailing change) exactly if the leg is an ascent or
   entered and the next real waypoint is at another depth or entered;
   otherwise it shows the gas of its own leg (the leading change), and the
   gas that follows is shown by the next row as the gas of that row's leg. *)
C23_TrailingOnlyBeforeNoStop ==
    /\ [][BothGasChanges =>
              /\ RowEmitted
              /\ NewRow.change = (IF TrailingPreferred THEN "trailing" ELSE "leading")
              /\ NewRow.gas = (IF TrailingPreferred THEN newgasmix ELSE gasmix)]_vars
    /\ [](FullReportWritten /\ ~prefs.verbatim_plan
              => TrailingShownOnNextRow(dive.notes.rows))

\* the first part alone: which of the two changes the row shows
TrailingOrLeadingChosen ==
    [][BothGasChanges =>
           /\ RowEmitted
           /\ NewRow.change = (IF TrailingPreferred THEN "trailing" ELSE "leading")
           /\ NewRow.gas = (IF TrailingPreferred THEN newgasmix ELSE gasmix)]_vars

\* the rows of the leg table that show a gas, in order
RECURSIVE AnnotatedRows(_)
AnnotatedRows(rows) ==
    IF rows = <<>> THEN <<>>
    ELSE IF rows[1].change # "none" THEN <<rows[1]>> \o AnnotatedRows(Tail(rows))
    ELSE AnnotatedRows(Tail(rows))

(* C24: in the leg table no gas change is shown twice: a row that shows a gas
   never names the mix and setpoint that the last row before it with a gas
   named, and a gas shown as the trailing change of a row is not shown again
   as the leading change of a later row. *)
C24_NoGasChangeTwice ==
    ~prefs.verbatim_plan =>
        LET shown == AnnotatedRows(buffer.rows)
        IN \A k \in 2..Len(shown) :
               ~(shown[k].gas = shown[k - 1].gas /\ shown[k].sp = shown[k - 1].sp)

\* the second part alone: after a trailing change the next gas shown as
\* leading is another one
TrailingNotRepeatedAsLeading ==
    ~prefs.verbatim_plan =>
        LET shown == AnnotatedRows(buffer.rows)
        IN \A k \in 2..Len(shown) :
               (shown[k - 1].change = "trailing" /\ shown[k].change = "leading") =>
                   ~(shown[k].gas = shown[k - 1].gas /\ shown[k].sp = shown[k - 1].sp)

\* the 'Switch gas to' lines printed at real waypoint i
SwitchLines(i) ==
    {k \in 1..Len(dive.notes.rows) :
         dive.notes.rows[k].kind = "switch" /\ dive.notes.rows[k].dp = i}

(* C25: in a verbatim plan, for every real waypoint whose gas mix or setpoint
   is not the one of the next real waypoint there is exactly one 'Switch gas
   to' line, and it names the mix of the next real waypoint; this includes the
   change after the first waypoint and the change after a waypoint that a
   skip rule skipped. *)
C25_SwitchLinePerGasChange ==
    (FullReportWritten /\ prefs.verbatim_plan) =>
        \A i \in RealWaypoints :
            ChangeFollows(i) =>
                /\ Cardinality(SwitchLines(i)) = 1
                /\ \A k \in SwitchLines(i) :
                       dive.notes.rows[k].gas
                           = CylinderGasmix(diveplan.dp[NextReal(i)].cylinderid)

\* the same for the waypoints that the loop processed after another one
SwitchLineAfterProcessed ==
    (FullReportWritten /\ prefs.verbatim_plan) =>
        \A i \in RealWaypoints :
            (ChangeFollows(i) /\ PrevReal(i) # NULL
                 /\ \E k \in 1..Len(dive.notes.rows) :
                        dive.notes.rows[k].dp = i /\ dive.notes.rows[k].kind # "switch") =>
                /\ Cardinality(SwitchLines(i)) = 1
                /\ \A k \in SwitchLines(i) :
                       dive.notes.rows[k].gas
                           = CylinderGasmix(diveplan.dp[NextReal(i)].cylinderid)

\* the rows up to row k that show a gas, the trailing change of row k apart
ShownUpTo(rows, k) ==
    {j \in 1..k : rows[j].change # "none" /\ ~(j = k /\ rows[j].change = "trailing")}

(* C26: in the leg table the gas of every row's leg, the mix of the cylinder
   of its waypoint, is the gas that the row itself or the last row before it
   with a gas shows, the trailing change of the row itself apart. *)
C26_NoGasDropped ==
    ~prefs.verbatim_plan =>
        \A k \in 1..Len(buffer.rows) :
            LET shown == ShownUpTo(buffer.rows, k)
            IN /\ shown # {}
               /\ LET j == CHOOSE m \in shown : \A n \in shown : n <= m
                  IN buffer.rows[j].gas
                         = CylinderGasmix(diveplan.dp[buffer.rows[k].dp].cylinderid)


-----------------------------------------------------------------------------
(* The dive filter, core/divefilter.cpp                                    *)
(*                                                                         *)
(* A dive is a record of the fields the filter reads and writes; what the  *)
(* full text index and the constraint matcher answer for a dive is a field *)
(* of the dive.  dive_table is the sequence of the dives of the log, a     *)
(* dive site is a number, a dive list handed to update() is a set of       *)
(* indexes into dive_table.                                                *)

\* most dives a log holds
MaxDives == 2

\* most startFilterDiveSites / stopFilterDiveSites calls in a run
MaxSiteCalls == 3

Sites == {1, 2}

\* the planner at rest, with the preferences the filter reads
NoPlan(p) ==
    /\ diveplan = [dp |-> <<>>, surface_interval |-> 0]
    /\ dive = DiveWith(StandardCylinders, "OC")
    /\ prefs = p
    /\ args = NoError
    /\ pc = "idle"
    /\ lv = InitLocals
    /\ buffer = EmptyBuffer
    /\ icdbuffer = <<>>
    /\ old = [dive |-> dive, diveplan |-> diveplan]
    /\ ncalls = 0

LogDive(site, invalid, cmatch, ftmatch, hidden) ==
    [dive_site |-> site, invalid |-> invalid, constraint_match |-> cmatch,
     fulltext_match |-> ftmatch, hidden_by_filter |-> hidden, selected |-> ~hidden]

\* the dives a log is made of: three kinds, each hidden or shown
LogDives ==
    {LogDive(1, FALSE, TRUE, TRUE, h) : h \in BOOLEAN}
        \cup {LogDive(2, FALSE, FALSE, TRUE, h) : h \in BOOLEAN}
        \cup {LogDive(1, TRUE, TRUE, FALSE, h) : h \in BOOLEAN}

DiveTables(n) == UNION {[1..k -> LogDives] : k \in 0..n}

BoolToInt(b) == IF b THEN 1 ELSE 0

\* the dives of a table that are not hidden
ShownIn(table) == {i \in DOMAIN table : ~table[i].hidden_by_filter}

diveSiteMode == diveSiteRefCount > 0

validFilter == filterData.fullText \/ filterData.constraints

\* QVector::contains
Contains(v, x) == \E i \in DOMAIN v : v[i] = x

showDive(d) ==
    IF d.invalid /\ ~prefs.display_invalid_dives THEN FALSE
    ELSE IF ~validFilter THEN TRUE
    ELSE filterData.constraints => d.constraint_match

\* the dive as setFilterStatus leaves it
setFilterStatus(d, shown) ==
    [d EXCEPT !.hidden_by_filter = ~shown,
              !.selected = IF ~shown THEN FALSE ELSE @]

\* what setFilterStatus adds to shown_dives
ShownDelta(d, shown) ==
    LET old_shown == ~d.hidden_by_filter
        changed == old_shown # shown
    IN IF changed THEN BoolToInt(shown) - BoolToInt(old_shown) ELSE 0

\* the three modes: divesite, fulltext, normal
newStatus(d) ==
    IF diveSiteMode THEN Contains(dive_sites, d.dive_site)
    ELSE IF filterData.fullText THEN d.fulltext_match /\ showDive(d)
    ELSE showDive(d)

\* updateDiveStatus on each dive of the set S, on the table
StatusUpdated(table, S) ==
    [i \in DOMAIN table |->
        IF i \in S THEN setFilterStatus(table[i], newStatus(table[i])) ELSE table[i]]

RECURSIVE DeltaUpTo(_, _, _)
\* what the calls of setFilterStatus on the dives of S up to index n add
DeltaUpTo(table, S, n) ==
    IF n = 0 THEN 0
    ELSE DeltaUpTo(table, S, n - 1)
             + (IF n \in S THEN ShownDelta(table[n], newStatus(table[n])) ELSE 0)

update ==
    \E S \in SUBSET DOMAIN dive_table :
        /\ S # {}
        /\ dive_table' = StatusUpdated(dive_table, S)
        /\ shown_dives' = shown_dives + DeltaUpTo(dive_table, S, Len(dive_table))
        /\ UNCHANGED <<filterData, diveSiteRefCount, dive_sites, sitecalls>>
        /\ UNCHANGED <<plannerVars, statsVars>>

updateAll ==
    /\ dive_table' = StatusUpdated(dive_table, DOMAIN dive_table)
    /\ shown_dives' = 0 + DeltaUpTo(dive_table, DOMAIN dive_table, Len(dive_table))
    /\ UNCHANGED <<filterData, diveSiteRefCount, dive_sites, sitecalls>>
    /\ UNCHANGED <<plannerVars, statsVars>>

\* reset(): every dive shown, then updateAll()
reset ==
    LET unhidden == [i \in DOMAIN dive_table |->
                        [dive_table[i] EXCEPT !.hidden_by_filter = FALSE]]
    IN /\ dive_table' = StatusUpdated(unhidden, DOMAIN unhidden)
       /\ shown_dives' = 0 + DeltaUpTo(unhidden, DOMAIN unhidden, Len(unhidden))
       /\ UNCHANGED <<filterData, diveSiteRefCount, dive_sites, sitecalls>>
       /\ UNCHANGED <<plannerVars, statsVars>>

\* the table without its i-th dive
Without(table, i) ==
    [k \in 1..(Len(table) - 1) |-> IF k < i THEN table[k] ELSE table[k + 1]]

\* diveRemoved(d) as the log drops the dive d
diveRemoved ==
    \E i \in DOMAIN dive_table :
        /\ shown_dives' = IF ~dive_table[i].hidden_by_filter
                          THEN shown_dives - 1 ELSE shown_dives
        /\ dive_table' = Without(dive_table, i)
        /\ UNCHANGED <<filterData, diveSiteRefCount, dive_sites, sitecalls>>
        /\ UNCHANGED <<plannerVars, statsVars>>

\* the site lists a caller hands over, in any order
SiteLists == {<<>>, <<1>>, <<2>>, <<1, 2>>, <<2, 1>>}

Occurrences(v, x) == Cardinality({i \in DOMAIN v : v[i] = x})

\* std::sort(ds.begin(), ds.end())
Sorted(ds) ==
    CHOOSE s \in [1..Len(ds) -> Sites] :
        /\ \A x \in Sites : Occurrences(s, x) = Occurrences(ds, x)
        /\ \A i \in 1..(Len(ds) - 1) : s[i] <= s[i + 1]

\* the site list as setFilterDiveSite(ds) leaves it
setFilterDiveSite(ds) ==
    IF Sorted(ds) = dive_sites THEN dive_sites ELSE Sorted(ds)

startFilterDiveSites(ds) ==
    /\ sitecalls.start + sitecalls.stop < MaxSiteCalls
    /\ diveSiteRefCount' = diveSiteRefCount + 1
    /\ dive_sites' = IF diveSiteRefCount' > 1 THEN setFilterDiveSite(ds) ELSE Sorted(ds)
    /\ sitecalls' = [sitecalls EXCEPT !.start = @ + 1]
    /\ UNCHANGED <<dive_table, filterData, shown_dives>>
    /\ UNCHANGED <<plannerVars, statsVars>>

stopFilterDiveSites ==
    /\ sitecalls.start + sitecalls.stop < MaxSiteCalls
    /\ diveSiteRefCount' = diveSiteRefCount - 1
    /\ dive_sites' = IF diveSiteRefCount' > 0 THEN dive_sites ELSE <<>>
    /\ sitecalls' = [sitecalls EXCEPT !.stop = @ + 1]
    /\ UNCHANGED <<dive_table, filterData, shown_dives>>
    /\ UNCHANGED <<plannerVars, statsVars>>

\* a log whose counter is right, under any filter, the site mode not started
InitFilter ==
    \E table \in DiveTables(MaxDives), ft \in BOOLEAN, cs \in BOOLEAN,
       inv \in BOOLEAN :
        /\ NoPlan([display_invalid_dives |-> inv])
        /\ NoStats
        /\ dive_table = table
        /\ filterData = [fullText |-> ft, constraints |-> cs]
        /\ shown_dives = Cardinality(ShownIn(table))
        /\ diveSiteRefCount = 0
        /\ dive_sites = <<>>
        /\ sitecalls = [start |-> 0, stop |-> 0]

NextFilter ==
    \/ reset
    \/ updateAll
    \/ update
    \/ diveRemoved
    \/ \E ds \in SiteLists : startFilterDiveSites(ds)
    \/ stopFilterDiveSites

SpecFilter == InitFilter /\ [][NextFilter]_vars

\* C27: after any sequence of reset, updateAll, update and diveRemoved calls
\* shown_dives is the number of dives whose hidden_by_filter is false
C27_ShownDivesCounted ==
    shown_dives = Cardinality(ShownIn(dive_table))

\* update and diveRemoved keep the difference between the counter and the
\* number of dives shown
ShownDivesDriftKept ==
    [][(update \/ diveRemoved) =>
          shown_dives' - Cardinality(ShownIn(dive_table'))
              = shown_dives - Cardinality(ShownIn(dive_table))]_vars

\* after updateAll the counter is the number of dives newly shown less the
\* number newly hidden
UpdateAllCountsChanges ==
    [][updateAll =>
          shown_dives' = Cardinality(ShownIn(dive_table') \ ShownIn(dive_table))
                           - Cardinality(ShownIn(dive_table) \ ShownIn(dive_table'))]_vars

\* diveSiteMode() is true exactly when more starts than stops were called
SiteModeCountsCalls ==
    /\ diveSiteRefCount = sitecalls.start - sitecalls.stop
    /\ diveSiteMode <=> sitecalls.start > sitecalls.stop

\* a start while the count is above zero replaces the site list and adds one
\* to the count
NestedStartReplaces ==
    [][\A ds \in SiteLists :
          diveSiteRefCount > 0 /\ startFilterDiveSites(ds)
              => dive_sites' = Sorted(ds) /\ diveSiteRefCount' = diveSiteRefCount + 1]_vars

\* a stop clears the site list when it brings the count to zero and leaves
\* it alone otherwise
ClearedAtZeroOnly ==
    [][stopFilterDiveSites =>
          IF diveSiteRefCount' = 0 THEN dive_sites' = <<>>
          ELSE dive_sites' = dive_sites]_vars

\* C28: the dive-site mode is reference counted: diveSiteMode() is true
\* exactly when more starts than stops were made, the count is never
\* negative, the site list is cleared only by the stop that brings the count
\* to zero, and a nested start replaces the list without resetting the count
C28_SiteModeRefCounted ==
    /\ [](SiteModeCountsCalls)
    /\ [](diveSiteRefCount >= 0)
    /\ ClearedAtZeroOnly
    /\ NestedStartReplaces

-----------------------------------------------------------------------------
(* The statistics helpers of stats/statsview.h                              *)
(*                                                                         *)
(* A dive handed to a binner is its bin value, to_bin_value(d); the dive   *)
(* itself, the pointer, is its position in the vector.  Bin values are     *)
(* integers and the invalid one is the largest int.  A std::vector index   *)
(* is zero based as in the code; an iterator is the index it points to,    *)
(* end() the size.                                                         *)

\* longest vector of dives handed to a binner
MaxBinned == 4

\* longest vector handed to quartiles
MaxVecLen == 8

INT_MAX == 2147483647

BinValues == {1, 2, 3}

\* significand bits of a double of the model; the code's double has 53
FloatBits == 3

RECURSIVE BitLength(_)
BitLength(x) == IF x = 0 THEN 0 ELSE 1 + BitLength(x \div 2)

\* the double nearest to the non-negative number x, ties to even
fl(x) ==
    LET e == IF BitLength(x) > FloatBits THEN BitLength(x) - FloatBits ELSE 0
        m == x \div 2^e
        r == x % 2^e
    IN IF e = 0 THEN x
       ELSE IF 2 * r > 2^e \/ (2 * r = 2^e /\ m % 2 = 1) THEN (m + 1) * 2^e
       ELSE m * 2^e

\* the doubles of one binade
VecValues == (2^(FloatBits - 1))..(2^FloatBits - 1)

is_invalid_value(i) == i = INT_MAX

\* v[i] of a std::vector
At(v, i) == v[i + 1]

\* std::lower_bound on the first element of the pairs of the sorted vector v
pair_lower_bound_end(v, value) == Len(v)
pair_lower_bound(v, value) ==
    IF \E i \in 0..(Len(v) - 1) : ~(At(v, i).first < value)
    THEN CHOOSE i \in 0..(Len(v) - 1) :
             /\ ~(At(v, i).first < value)
             /\ \A k \in 0..(i - 1) : At(v, k).first < value
    ELSE Len(v)

\* std::vector::insert(it, x)
InsertAt(v, it, x) ==
    [k \in 1..(Len(v) + 1) |->
        IF k < it + 1 THEN v[k] ELSE IF k = it + 1 THEN x ELSE v[k - 1]]

add_dive_to_value_bin(v, value, d) ==
    LET it == pair_lower_bound(v, value)
    IN IF it # Len(v) /\ At(v, it).first = value
       THEN [v EXCEPT ![it + 1].second = Append(@, d)]
       ELSE InsertAt(v, it, [first |-> value, second |-> <<d>>])

increment_count_bin(v, value) ==
    LET it == pair_lower_bound(v, value)
    IN IF it # Len(v) /\ At(v, it).first = value
       THEN [v EXCEPT ![it + 1].second = @ + 1]
       ELSE InsertAt(v, it, [first |-> value, second |-> 1])

\* StatsBinner::bins_between, the default of discrete types
bins_between(bin1, bin2) == <<>>

RECURSIVE DiveBinsUpTo(_, _)
\* value_bins of bin_dives after the first n dives
DiveBinsUpTo(ds, n) ==
    IF n = 0 THEN <<>>
    ELSE LET value == ds[n]
             before == DiveBinsUpTo(ds, n - 1)
         IN IF is_invalid_value(value) THEN before
            ELSE add_dive_to_value_bin(before, value, n)

RECURSIVE CountBinsUpTo(_, _)
\* value_bins of count_dives after the first n dives
CountBinsUpTo(ds, n) ==
    IF n = 0 THEN <<>>
    ELSE LET value == ds[n]
             before == CountBinsUpTo(ds, n - 1)
         IN IF is_invalid_value(value) THEN before
            ELSE increment_count_bin(before, value)

RECURSIVE BinResult(_, _, _, _)
\* the result vector built from the first n pairs: the bin, then what the
\* pair holds
BinResult(pairs, n, fill_empty, empty) ==
    IF n = 0 THEN <<>>
    ELSE LET res == BinResult(pairs, n - 1, fill_empty, empty)
             b == pairs[n].first
             filled == IF fill_empty /\ res # <<>>
                       THEN res \o [k \in DOMAIN bins_between(res[Len(res)].bin, b) |->
                                       [bin |-> bins_between(res[Len(res)].bin, b)[k],
                                        second |-> empty]]
                       ELSE res
         IN Append(filled, [bin |-> b, second |-> pairs[n].second])

bin_dives ==
    /\ value_bins' = [called |-> TRUE,
                      res |-> LET pairs == DiveBinsUpTo(dives, Len(dives))
                              IN BinResult(pairs, Len(pairs), FALSE, <<>>)]
    /\ UNCHANGED <<dives, count_bins, vec, quart>>
    /\ UNCHANGED <<plannerVars, filterVars>>

count_dives ==
    /\ count_bins' = [called |-> TRUE,
                      res |-> LET pairs == CountBinsUpTo(dives, Len(dives))
                              IN BinResult(pairs, Len(pairs), FALSE, 0)]
    /\ UNCHANGED <<dives, value_bins, vec, quart>>
    /\ UNCHANGED <<plannerVars, filterVars>>

\* any vector of dives, with valid and invalid bin values in any order
InitBinner ==
    \E ds \in UNION {[1..n -> BinValues \cup {INT_MAX}] : n \in 0..MaxBinned} :
        /\ NoPlan(DefaultPrefs)
        /\ NoFilter
        /\ dives = ds
        /\ value_bins = [called |-> FALSE, res |-> <<>>]
        /\ count_bins = [called |-> FALSE, res |-> <<>>]
        /\ vec = <<>>
        /\ quart = [called |-> FALSE]

\* what a read past the vector may give
Garbage == {0, 2^FloatBits}

\* vec[i] as quartiles reads it
Read(v, i, garbage) == IF i \in 0..(Len(v) - 1) THEN At(v, i) ELSE garbage

\* the quartile values are kept in quarters, four times the double of the
\* code: a division by 2.0 or 4.0 is exact, a product and a sum are rounded

\* vec[i] in quarters
plain(v, i, garbage) == 4 * Read(v, i, garbage)

\* q1(&vec[i]) in quarters
q1(v, i, garbage) == fl(fl(3 * Read(v, i, garbage)) + Read(v, i + 1, garbage))

\* q2(&vec[i]) in quarters
q2(v, i, garbage) == 2 * fl(Read(v, i, garbage) + Read(v, i + 1, garbage))

\* q3(&vec[i]) in quarters
q3(v, i, garbage) == fl(Read(v, i, garbage) + fl(3 * Read(v, i + 1, garbage)))

StatsQuartiles(min, a, b, c, max, reads) ==
    [min |-> min, q1 |-> a, q2 |-> b, q3 |-> c, max |-> max, reads |-> reads]

\* StatsType::quartiles(vec), with the indexes of vec it reads
quartiles(v, g) ==
    LET s == Len(v)
        ends == {0, s - 1}
        pair(i) == {i, i + 1}
    IN IF s = 0 THEN StatsQuartiles(0, 0, 0, 0, 0, {})
       ELSE CASE s % 4 = 0 ->
                   StatsQuartiles(plain(v, 0, g), q3(v, s \div 4 - 1, g),
                                  q2(v, s \div 2 - 1, g), q1(v, s - s \div 4 - 1, g),
                                  plain(v, s - 1, g),
                                  ends \cup pair(s \div 4 - 1) \cup pair(s \div 2 - 1)
                                       \cup pair(s - s \div 4 - 1))
              [] s % 4 = 1 ->
                   StatsQuartiles(plain(v, 0, g), plain(v, s \div 4, g),
                                  plain(v, s \div 2, g), plain(v, s - s \div 4 - 1, g),
                                  plain(v, s - 1, g),
                                  ends \cup {s \div 4, s \div 2, s - s \div 4 - 1})
              [] s % 4 = 2 ->
                   StatsQuartiles(plain(v, 0, g), q1(v, s \div 4, g),
                                  q2(v, s \div 2 - 1, g), q3(v, s - s \div 4 - 2, g),
                                  plain(v, s - 1, g),
                                  ends \cup pair(s \div 4) \cup pair(s \div 2 - 1)
                                       \cup pair(s - s \div 4 - 2))
              [] s % 4 = 3 ->
                   StatsQuartiles(plain(v, 0, g), q2(v, s \div 4, g),
                                  plain(v, s \div 2, g), q2(v, s - s \div 4 - 2, g),
                                  plain(v, s - 1, g),
                                  ends \cup pair(s \div 4) \cup {s \div 2}
                                       \cup pair(s - s \div 4 - 2))

quartilesCall ==
    \E g \in Garbage :
        /\ quart' = [called |-> TRUE, res |-> quartiles(vec, g)]
        /\ UNCHANGED <<dives, value_bins, count_bins, vec>>
        /\ UNCHANGED <<plannerVars, filterVars>>

RECURSIVE SortedVecs(_)
\* the sorted vectors of n elements
SortedVecs(n) ==
    IF n = 0 THEN {<<>>}
    ELSE UNION {{Append(v, x) : x \in {y \in VecValues : v = <<>> \/ v[Len(v)] <= y}} :
                   v \in SortedVecs(n - 1)}

\* any sorted vector, the empty one included
InitQuartiles ==
    \E v \in UNION {SortedVecs(n) : n \in 0..MaxVecLen} :
        /\ NoPlan(DefaultPrefs)
        /\ NoFilter
        /\ dives = <<>>
        /\ value_bins = [called |-> FALSE, res |-> <<>>]
        /\ count_bins = [called |-> FALSE, res |-> <<>>]
        /\ vec = v
        /\ quart = [called |-> FALSE]

InitStats == InitBinner \/ InitQuartiles

NextStats ==
    \/ bin_dives
    \/ count_dives
    \/ quartilesCall

SpecStats == InitStats /\ [][NextStats]_vars

\* the dives whose bin value is valid
ValidDives == {d \in DOMAIN dives : ~is_invalid_value(dives[d])}

\* the dives of the i-th bin returned
DivesOfBin(i) == {value_bins.res[i].second[k] : k \in DOMAIN value_bins.res[i].second}

RECURSIVE SumCounts(_, _)
SumCounts(res, n) == IF n = 0 THEN 0 ELSE SumCounts(res, n - 1) + res[n].second

\* C29: without fill_empty bin_dives and count_dives return the same bins in
\* strictly ascending order; a dive with a valid bin value is in exactly one
\* bin, the one of its value, a dive with an invalid one in none; the counts
\* are the sizes of the lists of dives and add up to the number of valid dives
C29_BinsAscendingAndComplete ==
    value_bins.called /\ count_bins.called =>
        LET bins == value_bins.res
            counts == count_bins.res
        IN /\ \A i, j \in DOMAIN bins : i < j => bins[i].bin < bins[j].bin
           /\ \A i, j \in DOMAIN counts : i < j => counts[i].bin < counts[j].bin
           /\ \A d \in ValidDives :
                  /\ Cardinality({i \in DOMAIN bins : d \in DivesOfBin(i)}) = 1
                  /\ \A i \in DOMAIN bins : d \in DivesOfBin(i) => bins[i].bin = dives[d]
           /\ \A d \in DOMAIN dives \ ValidDives, i \in DOMAIN bins : d \notin DivesOfBin(i)
           /\ \A i \in DOMAIN bins :
                  Cardinality(DivesOfBin(i)) = Len(bins[i].second)
           /\ Len(counts) = Len(bins)
           /\ \A i \in DOMAIN bins :
                  /\ counts[i].bin = bins[i].bin
                  /\ counts[i].second = Len(bins[i].second)
           /\ SumCounts(counts, Len(counts)) = Cardinality(ValidDives)

\* both results are there for dives given in descending order of value with
\* an invalid one among them and two in one bin
C29_Witness ==
    /\ value_bins.called /\ count_bins.called
    /\ dives = <<3, INT_MAX, 1, 3>>
    /\ Len(value_bins.res) = 2
    /\ value_bins.res[2].second = <<1, 4>>
    /\ count_bins.res[2].second = 2

\* C30: for a sorted vector of size s >= 1 quartiles reads only indexes in
\* 0..s-1 and returns min <= q1 <= q2 <= q3 <= max, min the first and max the
\* last element; for the empty vector it returns all zeros
C30_QuartilesOrderedInRange ==
    quart.called =>
        LET r == quart.res
            s == Len(vec)
        IN IF s = 0
           THEN r.min = 0 /\ r.q1 = 0 /\ r.q2 = 0 /\ r.q3 = 0 /\ r.max = 0
           ELSE /\ r.reads \subseteq 0..(s - 1)
                /\ r.min <= r.q1 /\ r.q1 <= r.q2 /\ r.q2 <= r.q3 /\ r.q3 <= r.max
                /\ r.min = 4 * vec[1]
                /\ r.max = 4 * vec[s]

\* quartiles reads only indexes in 0..s-1, min is the first and max the last
\* element, no quartile is below min or above max, and the empty vector gives
\* all zeros
QuartilesWithinMinMax ==
    quart.called =>
        LET r == quart.res
            s == Len(vec)
        IN IF s = 0
           THEN r.min = 0 /\ r.q1 = 0 /\ r.q2 = 0 /\ r.q3 = 0 /\ r.max = 0
           ELSE /\ r.reads \subseteq 0..(s - 1)
                /\ r.min = 4 * vec[1]
                /\ r.max = 4 * vec[s]
                /\ \A q \in {r.q1, r.q2, r.q3} : r.min <= q /\ q <= r.max
=============================================================================
